---- MODULE Spec2Model ----
(***************************************************************************)
(* A model of the patapsco pipeline engine: the Task lifecycle and the     *)
(* Completion Marker protocol (patapsco/pipeline.py, patapsco/topics.py),  *)
(* the streaming, batch and linked pipeline drivers (patapsco/pipeline.py, *)
(* pipeline/pipeline.py), the MultiplexTask composite and the orchestrator *)
(* that wires the stages from the state of their directories              *)
(* (pipeline/system.py); the shard merge (run_reduce, reduce), the Timed   *)
(* decorator, the multiplex manifest read by RetrieverFactory             *)
(* (patapsco/retrieve.py) and Scorer.score (patapsco/score.py); external   *)
(* jobs writing shard directories while a process reduces them; and the    *)
(* single components TopicProcessor (patapsco/topics.py),                  *)
(* Scorer._preprocess_metrics and Joiner (patapsco/retrieve.py).           *)
(***************************************************************************)
EXTENDS Integers, Sequences, FiniteSets, TLC

\* ------------------------------------------------------------------ bounds
MaxRecords == 4
MaxTasks == 2
MaxRuns == 2
MaxSplits == 2
MaxItems == 2
MaxCalls == 2
MaxShards == 2
MaxLines == 2
MaxChars == 2
MaxTokens == 3
MaxMetrics == 2
MaxResults == 2

\* --------------------------------------------------------------- variables
VARIABLES
    chain,      \* Pipeline.tasks: the kind of each task, in chain order
    driver,     \* "streaming" | "batch" (patapsco) | "linked" (pipeline/pipeline.py)
    chunkN,     \* BatchPipeline's n; 0 stands for None (the whole input)
    input,      \* the input sequence behind Pipeline.iterator
    pc,         \* position of run(): idle, pull, process, batch, bproc, end, done, failed
    pos,        \* number of records pulled from the iterator so far
    ti,         \* index of the task being called
    endStep,    \* position inside the current task's end(): call, marker, close
    cur,        \* StreamingPipeline.run's local `item`
    chunk,      \* BatchPipeline.run's local `chunk`
    out,        \* the list batch_process is building
    ei,         \* index of the chunk element batch_process is at
    count,      \* Pipeline.count
    calls,      \* history: every call made on a task, in order
    error,      \* the error run() raised to its caller, "none" if none
    fs,         \* per task: its base directory on disk
    file,       \* per task: QueryWriter.file (the open handle and its buffer)
    ref,        \* history: what the previous pipeline instance delivered
    resumed,    \* what a later execution read back from a complete directory
    \* --- the orchestrator (pipeline/system.py)
    conf,       \* RunConfig: which optional save directories are configured
    sysFs,      \* the stage directories of the run
    sysPc,      \* start, built, stage1done, finished, crashed, rejected
    sysError,   \* the error the orchestrator's caller sees, "none" if none
    run,        \* number of executions of the orchestrator so far
    fsAtStart,  \* history: the directories when System was last constructed
    deleted,    \* history: the directories the last construction deleted
    stage1,     \* System.stage1
    stage2,     \* System.stage2
    invoked,    \* history: tasks invoked by this execution
    outcomes,   \* history: how each earlier execution ended
    \* --- MultiplexTask (patapsco/pipeline.py)
    mxArgs,     \* the constructor's arguments: splits, config, artifact_config
    mxPc,       \* new, ready, begun, ending, ended, reduced, error
    mxTasks,    \* MultiplexTask.tasks: the split names, in insertion order
    mxHasDir,   \* whether the attribute MultiplexTask.dir is set
    mxParent,   \* the shared parent directory
    mxChild,    \* per split name: the child task's base directory
    mxIdx,      \* index of the child end() is at
    mxEndStep,  \* position inside end(): call, marker, config, complete
    mxCalls,    \* history: calls made on the child tasks
    mxOut,      \* the MultiplexItem the last process call returned
    mxError,    \* the error the last call raised, "none" if none
    mxIn,       \* history: the MultiplexItem the last process call was given
    mxShards,   \* the shard directories part* that run_reduce found under the parent
    mxRetr,     \* what RetrieverFactory.create built from the parent directory
    mxConf,     \* the shared configuration template and the configurations the factory was given
    \* --- one task called directly and through TimedTask (patapsco/pipeline.py)
    tkTask,     \* the task under the calls: its class and whether it has a base
    tkShards,   \* the shard directories part* under the base: lines of each
    tkD,        \* the task when it is called directly
    tkW,        \* the same task when it is called through a TimedTask
    tkTimer,    \* TimedTask.timer: the number of timed intervals
    tkPrev,     \* history: the lines written before the last call
    \* --- Scorer.score (patapsco/score.py)
    scQrels,    \* Scorer.qrels: per query the judged documents (none: no entry)
    scRun,      \* system_output: per query the retrieved documents (none: no entry)
    scMetrics,  \* Scorer.metrics
    scPc,       \* warn, prime, evaluate, mean, done, raised
    scWarn,     \* the warnings logged
    scError,    \* the error score() raised, "none" if none
    scPrime,    \* the queries of ndcg_prime_results
    scScores,   \* scores: per query the measures it holds
    \* --- shard-writing jobs and a reducing process (patapsco/pipeline.py, topics.py)
    shJobs,     \* per shard directory: the external job writing it
    shRed,      \* the process that calls run_reduce on the stage's task
    \* --- single components of the query stage (patapsco/topics.py, score.py, retrieve.py)
    tpConf,     \* config.fields of the TopicProcessor
    tpPc,       \* new, ready, error, processed
    tpFields,   \* TopicProcessor.fields
    tpTopic,    \* the topic process was given
    tpOut,      \* what the last call returned or raised
    mtIn,       \* the metric names given to Scorer
    mtRes,      \* history: the lists _preprocess_metrics returned
    jnIn,       \* the MultiplexItem given to Joiner.process
    jnOut       \* the Results Joiner.process returned

pipeVars == <<chain, driver, chunkN, input, pc, pos, ti, endStep, cur, chunk,
              out, ei, count, calls, error, fs, file, ref, resumed>>

sysVars == <<conf, sysFs, sysPc, sysError, run, fsAtStart, deleted, stage1,
             stage2, invoked, outcomes>>

muxVars == <<mxArgs, mxPc, mxTasks, mxHasDir, mxParent, mxChild, mxIdx,
             mxEndStep, mxCalls, mxOut, mxError, mxIn, mxShards, mxRetr,
             mxConf>>

taskVars == <<tkTask, tkShards, tkD, tkW, tkTimer, tkPrev>>

scoreVars == <<scQrels, scRun, scMetrics, scPc, scWarn, scError, scPrime, scScores>>

shardVars == <<shJobs, shRed>>

compVars == <<tpConf, tpPc, tpFields, tpTopic, tpOut, mtIn, mtRes, jnIn, jnOut>>

vars == <<pipeVars, sysVars, muxVars, taskVars, scoreVars, shardVars, compVars>>

\* ------------------------------------------------------------------- items
\* A record flowing through the chain: its identity and the tasks that
\* transformed it so far (process is an opaque function of the task).
NoItem == [id |-> 0, trail |-> <<>>]
Record(i) == [id |-> i, trail |-> <<>>]

\* json.dumps(query, cls=DataclassJSONEncoder) + "\n": one line holding the
\* fields of the dataclass as key/value pairs, in field order.
JsonLine(item) == <<<<"id", item.id>>, <<"trail", item.trail>>>>

\* json.loads(line)[key]
Field(line, key) == line[CHOOSE i \in 1..Len(line) : line[i][1] = key][2]

\* Query(**json.loads(line)): the dataclass built from the keys of the line.
ParseLine(line) == [id |-> Field(line, "id"), trail |-> Field(line, "trail")]

TaskKinds == {"Task", "QueryWriter"}
Errors == {"ConfigError", "ParseError", "PipelineError"}
Drivers == {"streaming", "batch", "linked"}
ChunkSizes == {0, 1, 3}

NumTasks == Len(chain)
TaskIds == 1..NumTasks

\* Task.__init__: a task owns a base directory only when one is configured;
\* of the tasks modelled, QueryWriter passes config.output.path.
HasBase(t) == chain[t] = "QueryWriter"

NoDir == [exists |-> FALSE, config |-> FALSE, marker |-> FALSE, disk |-> <<>>]
\* Task.__init__ makes the base directory; QueryWriter.__init__ opens
\* queries.jsonl for writing, which creates it empty.
NewDir == [exists |-> TRUE, config |-> FALSE, marker |-> FALSE, disk |-> <<>>]
NoRead == [set |-> FALSE, task |-> 0, queries |-> <<>>]
NoFile == [open |-> FALSE, buf |-> <<>>]
NewFile == [open |-> TRUE, buf |-> <<>>]

\* What process of task t returns for an item.
\* A plain task transforms the item; QueryWriter.process returns its query.
Apply(t, item) ==
    IF chain[t] = "QueryWriter" THEN item
    ELSE [item EXCEPT !.trail = Append(@, t)]

Entry(op, t, arg, ret, err, n) ==
    [op |-> op, task |-> t, arg |-> arg, ret |-> ret, err |-> err, n |-> n]
BeginEntry(t) == Entry("begin", t, NoItem, NoItem, "none", 0)
EndEntry(t) == Entry("end", t, NoItem, NoItem, "none", 0)
ProcessEntry(t, item) == Entry("process", t, item, Apply(t, item), "none", 0)
RaiseEntry(t, item, e) == Entry("process", t, item, NoItem, e, 0)
BatchEntry(t, n) == Entry("batch_process", t, NoItem, NoItem, "none", n)

\* QueryWriter.process: one line is written to the buffered file; the
\* buffer may be flushed to disk by the write when it fills up.
WriteLine(t, item, flush) ==
    IF ~HasBase(t) THEN /\ flush = FALSE
                        /\ UNCHANGED <<fs, file>>
    ELSE IF flush
         THEN /\ fs' = [fs EXCEPT ![t].disk = @ \o Append(file[t].buf, JsonLine(item))]
              /\ file' = [file EXCEPT ![t].buf = <<>>]
         ELSE /\ file' = [file EXCEPT ![t].buf = Append(@, JsonLine(item))]
              /\ UNCHANGED fs

\* ------------------------------------------------------------ construction
Chains == UNION {[1..k -> TaskKinds] : k \in 1..MaxTasks}
Inputs == {[i \in 1..n |-> i] : n \in 0..MaxRecords}

\* Pipeline.__init__ / BatchPipeline.__init__, after the tasks were built.
Fresh(c, d, n, inp) ==
    /\ chain = c
    /\ driver = d
    /\ chunkN = n
    /\ input = inp
    /\ pos = 0
    /\ ti = 1
    /\ endStep = "call"
    /\ cur = NoItem
    /\ chunk = <<>>
    /\ out = <<>>
    /\ ei = 1
    /\ count = 0
    /\ calls = <<>>
    /\ error = "none"
    /\ fs = [t \in 1..Len(c) |-> IF c[t] = "QueryWriter" THEN NewDir ELSE NoDir]
    /\ file = [t \in 1..Len(c) |-> IF c[t] = "QueryWriter" THEN NewFile ELSE NoFile]
    /\ resumed = NoRead

NoRef == [set |-> FALSE, by |-> "none", n |-> 0, recv |-> <<>>, rets |-> <<>>, disk |-> <<>>]

PipeInit ==
    /\ \E c \in Chains, d \in Drivers, inp \in Inputs :
         \E n \in (IF d = "batch" THEN ChunkSizes ELSE {0}) :
            Fresh(c, d, n, inp)
    /\ pc = "idle"
    /\ ref = NoRef

\* ------------------------------------------------------------------- begin
\* Pipeline.begin: reset the counter, begin every task in chain order.
BeginCallsReversed == [t \in TaskIds |-> BeginEntry(NumTasks + 1 - t)]
BeginCalls == [t \in TaskIds |-> BeginEntry(t)]

PipelineBegin ==
    /\ UNCHANGED <<sysVars, muxVars, taskVars, scoreVars, shardVars, compVars>>
    /\ UNCHANGED resumed
    /\ pc = "idle"
    /\ driver \in {"streaming", "batch"}
    /\ count' = 0
    /\ calls' = calls \o BeginCalls
    /\ pc' = "pull"
    /\ UNCHANGED <<chain, driver, chunkN, input, pos, ti, endStep, cur, chunk,
                   out, ei, error, fs, file, ref>>

\* Task._begin of the linked driver: begin, then the downstream task.
RECURSIVE LinkedBeginFrom(_)
LinkedBeginFrom(t) ==
    <<BeginEntry(t)>> \o (IF t < NumTasks THEN LinkedBeginFrom(t + 1) ELSE <<>>)

LinkedBegin ==
    /\ UNCHANGED <<sysVars, muxVars, taskVars, scoreVars, shardVars, compVars>>
    /\ UNCHANGED resumed
    /\ pc = "idle"
    /\ driver = "linked"
    /\ count' = 0
    /\ calls' = calls \o LinkedBeginFrom(1)
    /\ pc' = "pull"
    /\ UNCHANGED <<chain, driver, chunkN, input, pos, ti, endStep, cur, chunk,
                   out, ei, error, fs, file, ref>>

\* --------------------------------------------------------------- streaming
\* The record the iterator yields next.
NextRecord == Record(input[pos + 1])

\* `for item in self.iterator`: pull the next record, or leave the loop.
StreamPull ==
    /\ UNCHANGED <<sysVars, muxVars, taskVars, scoreVars, shardVars, compVars>>
    /\ UNCHANGED resumed
    /\ pc = "pull"
    /\ driver \in {"streaming", "linked"}
    /\ IF pos < Len(input)
       THEN /\ cur' = NextRecord
            /\ pos' = pos + 1
            /\ ti' = 1
            /\ pc' = "process"
            /\ UNCHANGED endStep
       ELSE /\ pc' = "end"
            /\ ti' = 1
            /\ endStep' = "call"
            /\ UNCHANGED <<cur, pos>>
    /\ UNCHANGED <<chain, driver, chunkN, input, chunk, out, ei, count, calls,
                   error, fs, file, ref>>

\* Faulty variant: run() with a `finally: self.end()` around its loop.
RaiseThenEnd(e) ==
    /\ pc' = "end"
    /\ error' = e

\* A process call raised e: nothing catches it in run(), the run is over.
Raise(e) ==
    /\ pc' = "failed"
    /\ error' = e

\* Faulty variant: the result of process is dropped, every task gets the record.
HandoffInput(t, item) == item

\* `item = task.process(item)`: what the next task is given.
Handoff(t, item) == Apply(t, item)

\* One pass of `for task in self.tasks: item = task.process(item)`, and of
\* Task._process in the linked driver; after the last task, count += 1.
StreamProcess ==
    /\ UNCHANGED <<sysVars, muxVars, taskVars, scoreVars, shardVars, compVars>>
    /\ UNCHANGED resumed
    /\ pc = "process"
    /\ driver \in {"streaming", "linked"}
    /\ \/ \E flush \in BOOLEAN :
            /\ WriteLine(ti, cur, flush)
            /\ calls' = Append(calls, ProcessEntry(ti, cur))
            /\ cur' = Handoff(ti, cur)
            /\ IF ti = NumTasks
               THEN /\ count' = count + 1
                    /\ pc' = "pull"
                    /\ ti' = 1
               ELSE /\ ti' = ti + 1
                    /\ UNCHANGED <<count, pc>>
            /\ UNCHANGED error
       \/ \E e \in Errors :
            /\ calls' = Append(calls, RaiseEntry(ti, cur, e))
            /\ Raise(e)
            /\ UNCHANGED <<cur, count, ti, fs, file>>
    /\ UNCHANGED <<chain, driver, chunkN, input, pos, endStep, chunk, out, ei, ref>>

\* ------------------------------------------------------------------- batch
Min(a, b) == IF a < b THEN a ELSE b

\* ChunkedIterator(iterator, n): the next chunk holds n records, fewer at the
\* end of the input, and every remaining record when n is None.
ChunkLen == IF chunkN = 0 THEN Len(input) - pos ELSE Min(chunkN, Len(input) - pos)

\* `for chunk in self.iterator`: pull the next chunk and add its length to
\* the counter, or leave the loop.
BatchPull ==
    /\ UNCHANGED <<sysVars, muxVars, taskVars, scoreVars, shardVars, compVars>>
    /\ UNCHANGED resumed
    /\ pc = "pull"
    /\ driver = "batch"
    /\ IF pos < Len(input)
       THEN /\ chunk' = [i \in 1..ChunkLen |-> Record(input[pos + i])]
            /\ pos' = pos + ChunkLen
            /\ count' = count + ChunkLen
            /\ ti' = 1
            /\ pc' = "batch"
            /\ UNCHANGED endStep
       ELSE /\ pc' = "end"
            /\ ti' = 1
            /\ endStep' = "call"
            /\ UNCHANGED <<chunk, pos, count>>
    /\ UNCHANGED <<chain, driver, chunkN, input, cur, out, ei, calls, error,
                   fs, file, ref>>

\* `chunk = task.batch_process(chunk)` is entered.
BatchCall ==
    /\ UNCHANGED <<sysVars, muxVars, taskVars, scoreVars, shardVars, compVars>>
    /\ UNCHANGED resumed
    /\ pc = "batch"
    /\ calls' = Append(calls, BatchEntry(ti, Len(chunk)))
    /\ out' = <<>>
    /\ ei' = 1
    /\ pc' = "bproc"
    /\ UNCHANGED <<chain, driver, chunkN, input, pos, ti, endStep, cur, chunk,
                   count, error, fs, file, ref>>

\* Faulty variant: batch_process that returns its results newest first.
CollectReversed(acc, r) == <<r>> \o acc

\* The list Task.batch_process builds: results in the order of the items.
Collect(acc, r) == Append(acc, r)

\* Task.batch_process: `[self.process(item) for item in items]`, one element
\* per step; after the last element the list is the next task's chunk.
BatchElem ==
    /\ UNCHANGED <<sysVars, muxVars, taskVars, scoreVars, shardVars, compVars>>
    /\ UNCHANGED resumed
    /\ pc = "bproc"
    /\ \/ \E flush \in BOOLEAN :
            /\ WriteLine(ti, chunk[ei], flush)
            /\ calls' = Append(calls, ProcessEntry(ti, chunk[ei]))
            /\ IF ei < Len(chunk)
               THEN /\ out' = Collect(out, Apply(ti, chunk[ei]))
                    /\ ei' = ei + 1
                    /\ UNCHANGED <<chunk, ti, pc>>
               ELSE /\ chunk' = Collect(out, Apply(ti, chunk[ei]))
                    /\ out' = <<>>
                    /\ ei' = 1
                    /\ IF ti = NumTasks
                       THEN /\ pc' = "pull"
                            /\ ti' = 1
                       ELSE /\ pc' = "batch"
                            /\ ti' = ti + 1
            /\ UNCHANGED error
       \/ \E e \in Errors :
            /\ calls' = Append(calls, RaiseEntry(ti, chunk[ei], e))
            /\ Raise(e)
            /\ UNCHANGED <<chunk, out, ei, ti, fs, file>>
    /\ UNCHANGED <<chain, driver, chunkN, input, pos, endStep, cur, count, ref>>

\* --------------------------------------------------------------------- end
\* After a task's end() returned: the next task's end(), or run() returns.
EndAdvance ==
    IF ti = NumTasks
    THEN /\ pc' = "done"
         /\ UNCHANGED ti
         /\ endStep' = "call"
    ELSE /\ ti' = ti + 1
         /\ endStep' = "call"
         /\ UNCHANGED pc

\* Task.end is entered (Pipeline.end / Task._end call it in chain order);
\* with a base directory its first statement writes config.yml.
EndCall ==
    /\ UNCHANGED <<sysVars, muxVars, taskVars, scoreVars, shardVars, compVars>>
    /\ UNCHANGED resumed
    /\ pc = "end"
    /\ endStep = "call"
    /\ calls' = Append(calls, EndEntry(ti))
    /\ IF HasBase(ti)
       THEN /\ fs' = [fs EXCEPT ![ti].config = TRUE]
            /\ endStep' = "marker"
            /\ UNCHANGED <<pc, ti>>
       ELSE /\ EndAdvance
            /\ UNCHANGED fs
    /\ UNCHANGED <<chain, driver, chunkN, input, pos, cur, chunk, out, ei,
                   count, error, file, ref>>

\* Task.end: touch_complete(self.base).
TouchComplete ==
    /\ UNCHANGED <<sysVars, muxVars, taskVars, scoreVars, shardVars, compVars>>
    /\ UNCHANGED resumed
    /\ pc = "end"
    /\ endStep = "marker"
    /\ fs' = [fs EXCEPT ![ti].marker = TRUE]
    /\ endStep' = "close"
    /\ UNCHANGED <<chain, driver, chunkN, input, pc, pos, ti, cur, chunk, out,
                   ei, count, calls, error, file, ref>>

\* QueryWriter.end, after super().end(): self.file.close() flushes the
\* buffer and closes the file.
FileClose ==
    /\ UNCHANGED <<sysVars, muxVars, taskVars, scoreVars, shardVars, compVars>>
    /\ UNCHANGED resumed
    /\ pc = "end"
    /\ endStep = "close"
    /\ fs' = [fs EXCEPT ![ti].disk = @ \o file[ti].buf]
    /\ file' = [file EXCEPT ![ti] = NoFile]
    /\ EndAdvance
    /\ UNCHANGED <<chain, driver, chunkN, input, pos, cur, chunk, out, ei,
                   count, calls, error, ref>>

\* ----------------------------------------------------------- second instance
\* What a finished run delivered: per task the items process was given, the
\* values the last task returned, and the lines on disk.
ProcessArgs(t) ==
    LET Given(e) == e.op = "process" /\ e.task = t /\ e.err = "none"
        s == SelectSeq(calls, Given)
    IN [i \in 1..Len(s) |-> s[i].arg]

FinalOutputs ==
    LET Last(e) == e.op = "process" /\ e.task = NumTasks /\ e.err = "none"
        s == SelectSeq(calls, Last)
    IN [i \in 1..Len(s) |-> s[i].ret]

Delivered ==
    [set |-> TRUE,
     by |-> driver,
     n |-> chunkN,
     recv |-> [t \in TaskIds |-> ProcessArgs(t)],
     rets |-> FinalOutputs,
     disk |-> [t \in TaskIds |-> fs[t].disk]]

\* Pipeline.__init__ / BatchPipeline.__init__: a second pipeline over the
\* same input with freshly built tasks of the same kinds, writing to a fresh
\* output location, under any driver and chunk size.
NewPipeline ==
    /\ UNCHANGED <<sysVars, muxVars, taskVars, scoreVars, shardVars, compVars>>
    /\ UNCHANGED resumed
    /\ pc = "done"
    /\ ~ref.set
    /\ ref' = Delivered
    /\ \E d \in Drivers :
         \E n \in (IF d = "batch" THEN ChunkSizes ELSE {0}) :
            /\ driver' = d
            /\ chunkN' = n
    /\ pc' = "idle"
    /\ pos' = 0
    /\ ti' = 1
    /\ endStep' = "call"
    /\ cur' = NoItem
    /\ chunk' = <<>>
    /\ out' = <<>>
    /\ ei' = 1
    /\ count' = 0
    /\ calls' = <<>>
    /\ error' = "none"
    /\ fs' = [t \in TaskIds |-> IF HasBase(t) THEN NewDir ELSE NoDir]
    /\ file' = [t \in TaskIds |-> IF HasBase(t) THEN NewFile ELSE NoFile]
    /\ UNCHANGED <<chain, input>>

\* ------------------------------------------------------------------- resume
\* QueryReader.__next__: self.data.pop(0)
PopFirst(data) == [line |-> Head(data), rest |-> Tail(data)]

\* QueryReader: the lines of queries.jsonl are read by the constructor; every
\* __next__ parses the first line left into a Query, until none is left.
RECURSIVE ReadQueries(_)
ReadQueries(data) ==
    IF data = <<>> THEN <<>>
    ELSE LET p == PopFirst(data)
         IN <<ParseLine(p.line)>> \o ReadQueries(p.rest)

\* System.add_io_task of a later execution: when the directory of a
\* QueryWriter is complete, a QueryReader on that directory takes the place
\* of the tasks up to the writer. The execution that wrote the directory is
\* over by then; what its file object still held in its buffer is not on
\* disk.
ResumeRead ==
    /\ UNCHANGED <<sysVars, muxVars, taskVars, scoreVars, shardVars, compVars>>
    /\ pc \in {"end", "done"}
    /\ ~resumed.set
    /\ \E t \in TaskIds :
         /\ HasBase(t)
         /\ fs[t].marker
         /\ resumed' = [set |-> TRUE, task |-> t, queries |-> ReadQueries(fs[t].disk)]
    /\ pc' = "resumed"
    /\ UNCHANGED <<chain, driver, chunkN, input, pos, ti, endStep, cur, chunk,
                   out, ei, count, calls, error, fs, file, ref>>


\* ============================================================ orchestrator
SysDirs == {"docstore", "index", "docs", "queries", "results", "rerank"}

Absent == [exists |-> FALSE, marker |-> FALSE, content |-> {}]
\* A directory left by an earlier, aborted execution (execution 0).
Partial == [exists |-> TRUE, marker |-> FALSE, content |-> {0}]
Complete == [exists |-> TRUE, marker |-> TRUE, content |-> {0}]

\* prepare_config: a component's `save` is a path under the run directory,
\* or False.
SavePath(flag, d) == IF flag THEN d ELSE "none"

\* util.file.is_complete: the directory holds the Completion Marker.
IsComplete(f, d) == f[d].marker
\* pathlib.Path(path).exists()
Exists(f, d) == f[d].exists
\* util.file.delete_dir: the directory is removed recursively.
DeleteDir(f, d) == [f EXCEPT ![d] = Absent]
\* Task.__init__ of a task with a base directory: mkdir(exist_ok=True).
MakeDir(f, d) == [f EXCEPT ![d].exists = TRUE]

\* The directory a task of the orchestrator's chains writes, "none" if none.
BaseOf(task) ==
    CASE task = "DocumentProcessor" -> "docstore"
      [] task = "DocWriter" -> "docs"
      [] task = "Indexer" -> "index"
      [] task = "QueryWriter" -> "queries"
      [] task = "JsonResultsWriter" -> "results"
      [] task = "TrecResultsWriter" -> "rerank"
      [] OTHER -> "none"

NoPipeline == [built |-> FALSE, iterable |-> "none", tasks |-> <<>>]
MkPipeline(tasks, iterable) == [built |-> TRUE, iterable |-> iterable, tasks |-> tasks]

\* System.__init__, first statement: a complete index with an incomplete
\* document store cannot run.
\* Faulty variant of the definition that follows.
NoCompletenessCheck(f) == FALSE
CompletenessViolated(f) == IsComplete(f, "index") /\ ~IsComplete(f, "docstore")

\* The error System.__init__ raises for it.
CompletenessError == "PipelineError"

\* Faulty variant: the stale document store is reused, not deleted.
OpenDocStoreKeepStale(b) ==
    [b EXCEPT !.fs = IF IsComplete(b.fs, "docstore") THEN b.fs
                     ELSE MakeDir(b.fs, "docstore")]

\* System.__init__: a stale document store is deleted; DocumentStore(path,
\* readonly) then opens it, creating it when it is writable.
OpenDocStore(b) ==
    LET stale == ~IsComplete(b.fs, "docstore") /\ Exists(b.fs, "docstore")
        f1 == IF stale THEN DeleteDir(b.fs, "docstore") ELSE b.fs
        readonly == IsComplete(f1, "docstore")
    IN [b EXCEPT !.fs = IF readonly THEN f1 ELSE MakeDir(f1, "docstore"),
                 !.deleted = IF stale THEN @ \cup {"docstore"} ELSE @]

\* Faulty variant of the definition that follows.
BuildPhase1Always(b) ==
    LET stale == Exists(b.fs, "index")
        f1 == IF stale THEN DeleteDir(b.fs, "index") ELSE b.fs
        f2 == IF conf.docsSave THEN MakeDir(f1, "docs") ELSE f1
    IN [b EXCEPT !.fs = MakeDir(f2, "index"),
                 !.deleted = IF stale THEN @ \cup {"index"} ELSE @,
                 !.stage1 = MkPipeline(<<"DocumentProcessor", "Indexer">>,
                                       "DocumentReader")]

\* System.build_phase1_pipeline
BuildPhase1(b) ==
    IF IsComplete(b.fs, "index") THEN [b EXCEPT !.stage1 = NoPipeline]
    ELSE LET stale == Exists(b.fs, "index")
             f1 == IF stale THEN DeleteDir(b.fs, "index") ELSE b.fs
             f2 == IF conf.docsSave THEN MakeDir(f1, "docs") ELSE f1
             tasks == <<"DocumentProcessor">>
                      \o (IF conf.docsSave THEN <<"DocWriter">> ELSE <<>>)
                      \o <<"Indexer">>
         IN [b EXCEPT !.fs = MakeDir(f2, "index"),
                      !.deleted = IF stale THEN @ \cup {"index"} ELSE @,
                      !.stage1 = MkPipeline(tasks, "DocumentReader")]

\* Faulty variant of the definition that follows.
AddIoTaskKeepUpstream(b, path, reader, writer) ==
    IF path = "none" THEN b
    ELSE IF IsComplete(b.fs, path)
         THEN [b EXCEPT !.iterable = reader]
         ELSE LET stale == Exists(b.fs, path)
                  f1 == IF stale THEN DeleteDir(b.fs, path) ELSE b.fs
              IN [b EXCEPT !.fs = MakeDir(f1, path),
                           !.deleted = IF stale THEN @ \cup {path} ELSE @,
                           !.tasks = Append(@, writer)]

\* System.add_io_task
AddIoTask(b, path, reader, writer) ==
    IF path = "none" THEN b
    ELSE IF IsComplete(b.fs, path)
         THEN [b EXCEPT !.tasks = <<>>, !.iterable = reader]
         ELSE LET stale == Exists(b.fs, path)
                  f1 == IF stale THEN DeleteDir(b.fs, path) ELSE b.fs
              IN [b EXCEPT !.fs = MakeDir(f1, path),
                           !.deleted = IF stale THEN @ \cup {path} ELSE @,
                           !.tasks = Append(@, writer)]

\* A faulty variant of the guard: the rerank results are never seen as
\* complete, so the results writer is always appended.
RerankNeverComplete(f) == FALSE

\* The guard of build_phase2_pipeline: the rerank results directory already
\* has its marker.
RerankComplete(f) == IsComplete(f, "rerank")

\* System.build_phase2_pipeline
BuildPhase2(b) ==
    LET b0 == [b EXCEPT !.iterable = "TopicReader", !.tasks = <<"TopicProcessor">>]
        b1 == AddIoTask(b0, SavePath(conf.topicsSave, "queries"),
                        "QueryReader", "QueryWriter")
        b2 == [b1 EXCEPT !.tasks = Append(@, "Retriever")]
        b3 == AddIoTask(b2, SavePath(conf.retrieveSave, "results"),
                        "JsonResultsReader", "JsonResultsWriter")
        b4 == [b3 EXCEPT !.tasks = Append(@, "Reranker")]
    IN IF RerankComplete(b4.fs)
       THEN [b4 EXCEPT !.error = "PipelineError"]
       ELSE LET stale == Exists(b4.fs, "rerank")
                f1 == IF stale THEN DeleteDir(b4.fs, "rerank") ELSE b4.fs
            IN [b4 EXCEPT !.fs = MakeDir(f1, "rerank"),
                          !.deleted = IF stale THEN @ \cup {"rerank"} ELSE @,
                          !.stage2 = MkPipeline(b4.tasks \o <<"TrecResultsWriter", "Scorer">>,
                                                b4.iterable)]

\* The states the stage directories can be in when an execution starts.
DirStates(d) ==
    IF \/ d = "docs" /\ ~conf.docsSave
       \/ d = "queries" /\ ~conf.topicsSave
       \/ d = "results" /\ ~conf.retrieveSave
    THEN {Absent}
    ELSE {Absent, Partial, Complete}

SysInit ==
    /\ conf \in [docsSave : BOOLEAN, topicsSave : BOOLEAN, retrieveSave : BOOLEAN]
    /\ sysFs \in [SysDirs -> {Absent, Partial, Complete}]
    /\ \A d \in SysDirs : sysFs[d] \in DirStates(d)
    /\ sysPc = "start"
    /\ sysError = "none"
    /\ run = 0
    /\ fsAtStart = sysFs
    /\ deleted = {}
    /\ stage1 = NoPipeline
    /\ stage2 = NoPipeline
    /\ invoked = <<>>
    /\ outcomes = <<>>

\* System.__init__, run by a new execution of the orchestrator.
SystemInit ==
    /\ UNCHANGED <<pipeVars, muxVars, taskVars, scoreVars, shardVars, compVars>>
    /\ sysPc \in {"start", "rejected", "crashed", "finished"}
    /\ run < MaxRuns
    /\ run' = run + 1
    /\ outcomes' = IF sysPc = "start" THEN outcomes ELSE Append(outcomes, sysPc)
    /\ fsAtStart' = sysFs
    /\ invoked' = <<>>
    /\ IF CompletenessViolated(sysFs)
       THEN /\ sysPc' = "rejected"
            /\ sysError' = CompletenessError
            /\ deleted' = {}
            /\ stage1' = NoPipeline
            /\ stage2' = NoPipeline
            /\ UNCHANGED sysFs
       ELSE LET b0 == [fs |-> sysFs, deleted |-> {}, tasks |-> <<>>,
                       iterable |-> "none", stage1 |-> NoPipeline,
                       stage2 |-> NoPipeline, error |-> "none"]
                b == BuildPhase2(BuildPhase1(OpenDocStore(b0)))
            IN /\ sysFs' = b.fs
               /\ deleted' = b.deleted
               /\ sysError' = b.error
               /\ IF b.error = "none"
                  THEN /\ sysPc' = "built"
                       /\ stage1' = b.stage1
                       /\ stage2' = b.stage2
                  ELSE /\ sysPc' = "rejected"
                       /\ stage1' = NoPipeline
                       /\ stage2' = NoPipeline
    /\ UNCHANGED conf

\* The directories the tasks of a chain write: a task's base directory; the
\* document store only when it was opened writable.
Writes(task) ==
    IF task = "DocumentProcessor" /\ IsComplete(fsAtStart, "docstore")
    THEN "none"
    ELSE BaseOf(task)

WrittenBy(tasks, upto) == {Writes(tasks[i]) : i \in 1..upto} \ {"none"}

\* Pipeline.run of pipeline/pipeline.py on a stage: begin, every record
\* through the chain, end. On success every task that owns a directory has
\* written it and end() has set its marker; when a process call raises at
\* task k, the tasks before it have written and no end() is called.
RunPipeline(p, next) ==
    /\ invoked' = invoked \o p.tasks
    /\ \/ /\ sysFs' = [d \in SysDirs |->
                         IF d \in WrittenBy(p.tasks, Len(p.tasks))
                         THEN [exists |-> TRUE, marker |-> TRUE,
                               content |-> sysFs[d].content \cup {run}]
                         ELSE sysFs[d]]
          /\ sysPc' = next
          /\ UNCHANGED sysError
       \/ \E k \in 0..Len(p.tasks), e \in Errors :
          /\ sysFs' = [d \in SysDirs |->
                         IF d \in WrittenBy(p.tasks, k)
                         THEN [sysFs[d] EXCEPT !.content = @ \cup {run}]
                         ELSE sysFs[d]]
          /\ sysPc' = "crashed"
          /\ sysError' = e

\* System.run: `if self.stage1: self.stage1.run()`
RunStage1 ==
    /\ UNCHANGED <<pipeVars, muxVars, taskVars, scoreVars, shardVars, compVars>>
    /\ sysPc = "built"
    /\ stage1.built
    /\ RunPipeline(stage1, "stage1done")
    /\ UNCHANGED <<conf, run, fsAtStart, deleted, stage1, stage2, outcomes>>

\* System.run: `self.stage2.run()`
RunStage2 ==
    /\ UNCHANGED <<pipeVars, muxVars, taskVars, scoreVars, shardVars, compVars>>
    /\ \/ sysPc = "built" /\ ~stage1.built
       \/ sysPc = "stage1done"
    /\ RunPipeline(stage2, "finished")
    /\ UNCHANGED <<conf, run, fsAtStart, deleted, stage1, stage2, outcomes>>

SysIdle ==
    /\ conf = [docsSave |-> FALSE, topicsSave |-> FALSE, retrieveSave |-> FALSE]
    /\ sysFs = [d \in SysDirs |-> Absent]
    /\ sysPc = "off"
    /\ sysError = "none"
    /\ run = 0
    /\ fsAtStart = sysFs
    /\ deleted = {}
    /\ stage1 = NoPipeline
    /\ stage2 = NoPipeline
    /\ invoked = <<>>
    /\ outcomes = <<>>

PipeIdle ==
    /\ Fresh(<<"Task">>, "streaming", 0, <<>>)
    /\ pc = "off"
    /\ ref = NoRef

SysNext ==
    \/ SystemInit
    \/ RunStage1
    \/ RunStage2


\* ============================================================ shard paths
\* The shard directories part<digits> under a base directory, named here by
\* their digits: part1, part2, part10.
ShardNames == {<<1>>, <<2>>, <<1, 0>>}

\* The number a shard name reads as.
RECURSIVE Decimal(_)
Decimal(s) ==
    IF s = <<>> THEN 0
    ELSE Decimal(SubSeq(s, 1, Len(s) - 1)) * 10 + s[Len(s)]

\* Path.__lt__ on sibling paths: the names compare as strings.
RECURSIVE LexLess(_, _)
LexLess(a, b) ==
    IF a = <<>> THEN b # <<>>
    ELSE IF b = <<>> THEN FALSE
    ELSE IF a[1] # b[1] THEN a[1] < b[1]
    ELSE LexLess(Tail(a), Tail(b))

\* sorted(list(...)) of Task.run_reduce, as an insertion sort.
Insert(x, sorted) ==
    LET k == Cardinality({i \in 1..Len(sorted) : LexLess(sorted[i], x)})
    IN SubSeq(sorted, 1, k) \o <<x>> \o SubSeq(sorted, k + 1, Len(sorted))

\* Faulty variant: the shards in the order the file system lists them.
Unsorted(paths) == paths

RECURSIVE SortPaths(_)
SortPaths(paths) ==
    IF paths = <<>> THEN <<>>
    ELSE Insert(Head(paths), SortPaths(Tail(paths)))

\* base.glob('part*'): the shard directories, in the order the file system
\* lists them.
Glob(S) == {p \in [1..Cardinality(S) -> S] : \A i, j \in 1..Cardinality(S) : p[i] = p[j] => i = j}

ShardSets == {S \in SUBSET ShardNames : Cardinality(S) <= MaxShards}

\* =========================================================== MultiplexTask
SplitNames == {"a", "b"}
SplitLists == UNION {[1..k -> SplitNames] : k \in 0..MaxSplits}

NoParent == [exists |-> FALSE, config |-> FALSE, marker |-> FALSE, manifest |-> <<>>,
             hasManifest |-> FALSE]
NoChild == [exists |-> FALSE, config |-> FALSE, marker |-> FALSE, data |-> <<>>]
NoRetriever == [built |-> FALSE, multiplex |-> FALSE, tasks |-> <<>>]

\* json.dump(splits, fp): the text of a JSON array of strings, as tokens.
RECURSIVE JsonStrings(_)
JsonStrings(names) ==
    IF names = <<>> THEN <<>>
    ELSE <<"\"", Head(names), "\"">> \o
         (IF Len(names) > 1 THEN <<",", " ">> ELSE <<>>) \o JsonStrings(Tail(names))

JsonDump(names) == <<"[">> \o JsonStrings(names) \o <<"]">>

\* json.load(fp): the strings between the quotes of the array, in order.
RECURSIVE ParseStrings(_)
ParseStrings(text) ==
    IF text = <<>> \/ text[1] = "]" THEN <<>>
    ELSE IF text[1] = "\"" THEN <<text[2]>> \o ParseStrings(SubSeq(text, 4, Len(text)))
    ELSE ParseStrings(Tail(text))

JsonLoad(text) == ParseStrings(Tail(text))

\* The keys of a dict built by assigning the names of a list in order: each
\* name once, at the place of its first occurrence.
RECURSIVE Keys(_)
Keys(names) ==
    IF names = <<>> THEN <<>>
    ELSE LET front == Keys(SubSeq(names, 1, Len(names) - 1))
             last == names[Len(names)]
         IN IF \E i \in 1..Len(front) : front[i] = last THEN front
            ELSE Append(front, last)

HasTask(name) == \E i \in 1..Len(mxTasks) : mxTasks[i] = name

\* A child task owns a base directory when it was created by the factory
\* from a configuration with an output path.
ChildHasBase == mxArgs.mode = "list" /\ mxArgs.output

\* The configuration template handed to MultiplexTask: its output path, as
\* path components, when it has an output; `created` lists the
\* configurations create_fn was called with, one per call.
OutputPath == <<"out">>
NewConfig(output) ==
    [output |-> output, path |-> IF output THEN OutputPath ELSE <<>>, created |-> <<>>]

\* pathlib.Path(path) / split, for a split name that is one path component.
PathJoin(path, split) == Append(path, split)

\* A faulty variant of the copy: task_config is the template object itself,
\* so rewriting its output path rewrites the template.
CopyAlias(template, rewritten) == rewritten

\* config.copy(deep=True): task_config shares nothing with the template, so
\* the template is as before after task_config's output path was rewritten.
CopyDeep(template, rewritten) == template

\* The loop of MultiplexTask.__init__ over a list of splits: copy the
\* template, rewrite the copy's output path when there is an output, and
\* call create_fn with the copy.
RECURSIVE CreateTasks(_, _)
CreateTasks(config, splits) ==
    IF splits = <<>> THEN config
    ELSE LET split == Head(splits)
             path == IF config.output THEN PathJoin(config.path, split) ELSE config.path
             template == CopyDeep(config.path, path)
         IN CreateTasks([config EXCEPT !.path = template,
                                       !.created = Append(@, [split |-> split, path |-> path])],
                        Tail(splits))

MuxInit ==
    /\ mxArgs \in [mode : {"list", "dict"}, splits : SplitLists,
                   output : BOOLEAN, artifact : BOOLEAN]
    /\ mxArgs.mode = "dict" => (~mxArgs.output /\ ~mxArgs.artifact
                                /\ mxArgs.splits = Keys(mxArgs.splits))
    /\ mxShards = {}
    /\ mxIn = <<>>
    /\ mxRetr = NoRetriever
    /\ mxConf = NewConfig(mxArgs.output)
    /\ mxPc = "new"
    /\ mxTasks = <<>>
    /\ mxHasDir = FALSE
    /\ mxParent = NoParent
    /\ mxChild = [n \in SplitNames |-> NoChild]
    /\ mxIdx = 1
    /\ mxEndStep = "call"
    /\ mxCalls = <<>>
    /\ mxOut = <<>>
    /\ mxError = "none"

MuxIdle ==
    /\ mxArgs = [mode |-> "dict", splits |-> <<>>, output |-> FALSE, artifact |-> FALSE]
    /\ mxShards = {}
    /\ mxIn = <<>>
    /\ mxRetr = NoRetriever
    /\ mxConf = NewConfig(FALSE)
    /\ mxPc = "off"
    /\ mxTasks = <<>>
    /\ mxHasDir = FALSE
    /\ mxParent = NoParent
    /\ mxChild = [n \in SplitNames |-> NoChild]
    /\ mxIdx = 1
    /\ mxEndStep = "call"
    /\ mxCalls = <<>>
    /\ mxOut = <<>>
    /\ mxError = "none"

\* MultiplexTask.__init__. From a dict the tasks are taken as they are. From
\* a list one task per split is created with its output path rewritten to
\* <parent>/<split>, then the manifest is written; self.dir is only set
\* inside the loop when the configuration has an output, so without one (or
\* without splits) `self.dir / 'config.yml'` raises AttributeError.
MuxConstruct ==
    /\ UNCHANGED <<pipeVars, sysVars, taskVars, scoreVars, shardVars, compVars>>
    /\ UNCHANGED <<mxIn, mxShards, mxRetr>>
    /\ mxPc = "new"
    /\ IF mxArgs.mode = "dict"
       THEN /\ mxTasks' = mxArgs.splits
            /\ mxPc' = "ready"
            /\ UNCHANGED <<mxHasDir, mxParent, mxChild, mxError, mxConf>>
       ELSE /\ mxTasks' = Keys(mxArgs.splits)
            /\ mxConf' = CreateTasks(mxConf, mxArgs.splits)
            /\ mxChild' = [n \in SplitNames |->
                             IF mxArgs.output /\ (\E i \in 1..Len(mxArgs.splits) : mxArgs.splits[i] = n)
                             THEN [NoChild EXCEPT !.exists = TRUE]
                             ELSE mxChild[n]]
            /\ IF mxArgs.output /\ mxArgs.splits # <<>>
               THEN /\ mxHasDir' = TRUE
                    /\ mxParent' = [mxParent EXCEPT !.exists = TRUE,
                                                   !.manifest = JsonDump(mxArgs.splits),
                                                   !.hasManifest = TRUE]
                    /\ mxPc' = "ready"
                    /\ UNCHANGED mxError
               ELSE /\ mxPc' = "error"
                    /\ mxError' = "AttributeError"
                    /\ UNCHANGED <<mxHasDir, mxParent>>
    /\ UNCHANGED <<mxArgs, mxIdx, mxEndStep, mxCalls, mxOut>>

MuxEntry(op, name, arg) == [op |-> op, split |-> name, arg |-> arg]

\* MultiplexTask.begin: begin every child, in the order of the dict.
MuxBegin ==
    /\ UNCHANGED <<pipeVars, sysVars, taskVars, scoreVars, shardVars, compVars>>
    /\ UNCHANGED <<mxIn, mxShards, mxRetr>>
    /\ mxPc = "ready"
    /\ mxCalls' = mxCalls \o [i \in 1..Len(mxTasks) |-> MuxEntry("begin", mxTasks[i], 0)]
    /\ mxPc' = "begun"
    /\ UNCHANGED <<mxConf, mxArgs, mxTasks, mxHasDir, mxParent, mxChild, mxIdx,
                   mxEndStep, mxOut, mxError>>

\* A MultiplexItem: an ordered mapping from split name to a value.
MuxItems ==
    {<<>>} \cup
    {<<[name |-> n, value |-> v]>> : n \in SplitNames \cup {"x"}, v \in 1..MaxItems} \cup
    {it \in {<<[name |-> n, value |-> v], [name |-> m, value |-> v]>> :
                n \in SplitNames, m \in SplitNames \cup {"x"}, v \in 1..MaxItems} :
        it[1].name # it[2].name}

\* What the child task of a split returns for a value.
ChildApply(name, v) == [by |-> name, of |-> v]

\* Faulty variant: every value goes to the first task.
FirstTask(name) == mxTasks[1]

\* self.tasks[name]: the task stored under the split name.
TaskFor(name) == name

\* The number of leading entries of an item whose split has a task.
RECURSIVE Routable(_)
Routable(item) ==
    IF item = <<>> \/ ~HasTask(item[1].name) THEN 0
    ELSE 1 + Routable(Tail(item))

\* MultiplexTask.process: each value goes through the task of its split;
\* a split without a task raises KeyError after the entries before it were
\* processed. A child with a base directory records what it was given.
MuxProcess ==
    /\ UNCHANGED <<pipeVars, sysVars, taskVars, scoreVars, shardVars, compVars>>
    /\ UNCHANGED <<mxShards, mxRetr>>
    /\ mxPc = "begun"
    /\ Len(mxCalls) < Len(mxTasks) + MaxItems
    /\ \E item \in MuxItems :
         LET k == Routable(item)
         IN /\ mxIn' = item
            /\ mxCalls' = mxCalls \o
                  [i \in 1..k |-> MuxEntry("process", TaskFor(item[i].name), item[i].value)]
            /\ mxChild' = [n \in SplitNames |->
                  IF ChildHasBase /\ (\E i \in 1..k : TaskFor(item[i].name) = n)
                  THEN [mxChild[n] EXCEPT !.data = @ \o
                          SelectSeq([i \in 1..k |-> item[i]],
                                    LAMBDA e : TaskFor(e.name) = n)]
                  ELSE mxChild[n]]
            /\ IF k = Len(item)
               THEN /\ mxOut' = [i \in 1..k |->
                                   [name |-> item[i].name,
                                    value |-> ChildApply(TaskFor(item[i].name), item[i].value)]]
                    /\ UNCHANGED <<mxError, mxPc>>
               ELSE /\ mxError' = "KeyError"
                    /\ mxPc' = "error"
                    /\ UNCHANGED mxOut
    /\ UNCHANGED <<mxConf, mxArgs, mxTasks, mxHasDir, mxParent, mxIdx, mxEndStep>>

\* MultiplexTask.end is called: the loop over the children starts.
MuxEnd ==
    /\ UNCHANGED <<pipeVars, sysVars, taskVars, scoreVars, shardVars, compVars>>
    /\ UNCHANGED <<mxIn, mxShards, mxRetr>>
    /\ mxPc = "begun"
    /\ mxPc' = "ending"
    /\ mxIdx' = 1
    /\ mxEndStep' = IF mxTasks # <<>> THEN "call"
                    ELSE IF mxHasDir THEN "config" ELSE "return"
    /\ UNCHANGED <<mxConf, mxArgs, mxTasks, mxHasDir, mxParent, mxChild, mxCalls,
                   mxOut, mxError>>

\* Faulty variant: the statements that follow the loop run after the first
\* child.
MuxEndAfterFirst ==
    /\ mxEndStep' = IF mxHasDir THEN "config" ELSE "return"
    /\ UNCHANGED mxIdx

\* After a child's end() returned: the next child, or the statements that
\* follow the loop.
MuxEndAdvance ==
    IF mxIdx < Len(mxTasks)
    THEN /\ mxIdx' = mxIdx + 1
         /\ mxEndStep' = "call"
    ELSE /\ mxEndStep' = IF mxHasDir THEN "config" ELSE "return"
         /\ UNCHANGED mxIdx

\* Task.end of a child: with a base directory, config.yml is written.
MuxChildEnd ==
    /\ UNCHANGED <<pipeVars, sysVars, taskVars, scoreVars, shardVars, compVars>>
    /\ UNCHANGED <<mxIn, mxShards, mxRetr>>
    /\ mxPc = "ending"
    /\ mxEndStep = "call"
    /\ mxCalls' = Append(mxCalls, MuxEntry("end", mxTasks[mxIdx], 0))
    /\ IF ChildHasBase
       THEN /\ mxChild' = [mxChild EXCEPT ![mxTasks[mxIdx]].config = TRUE]
            /\ mxEndStep' = "marker"
            /\ UNCHANGED mxIdx
       ELSE /\ MuxEndAdvance
            /\ UNCHANGED mxChild
    /\ UNCHANGED <<mxConf, mxArgs, mxPc, mxTasks, mxHasDir, mxParent, mxOut, mxError>>

\* Task.end of a child: touch_complete(self.base).
MuxChildComplete ==
    /\ UNCHANGED <<pipeVars, sysVars, taskVars, scoreVars, shardVars, compVars>>
    /\ UNCHANGED <<mxIn, mxShards, mxRetr>>
    /\ mxPc = "ending"
    /\ mxEndStep = "marker"
    /\ mxChild' = [mxChild EXCEPT ![mxTasks[mxIdx]].marker = TRUE]
    /\ MuxEndAdvance
    /\ UNCHANGED <<mxConf, mxArgs, mxPc, mxTasks, mxHasDir, mxParent, mxCalls, mxOut, mxError>>

\* MultiplexTask.end, after the loop: the shared config.yml is written only
\* when there is an artifact config.
MuxWriteConfig ==
    /\ UNCHANGED <<pipeVars, sysVars, taskVars, scoreVars, shardVars, compVars>>
    /\ UNCHANGED <<mxIn, mxShards, mxRetr>>
    /\ mxPc = "ending"
    /\ mxEndStep = "config"
    /\ mxParent' = IF mxArgs.artifact THEN [mxParent EXCEPT !.config = TRUE]
                   ELSE mxParent
    /\ mxEndStep' = "complete"
    /\ UNCHANGED <<mxConf, mxArgs, mxPc, mxTasks, mxHasDir, mxChild, mxIdx, mxCalls,
                   mxOut, mxError>>

\* MultiplexTask.end: touch_complete(self.dir).
MuxTouchComplete ==
    /\ UNCHANGED <<pipeVars, sysVars, taskVars, scoreVars, shardVars, compVars>>
    /\ UNCHANGED <<mxIn, mxShards, mxRetr>>
    /\ mxPc = "ending"
    /\ mxEndStep = "complete"
    /\ mxParent' = [mxParent EXCEPT !.marker = TRUE]
    /\ mxPc' = "ended"
    /\ mxEndStep' = "return"
    /\ UNCHANGED <<mxConf, mxArgs, mxTasks, mxHasDir, mxChild, mxIdx, mxCalls, mxOut, mxError>>

\* MultiplexTask.end returns without a shared directory.
MuxEndReturn ==
    /\ UNCHANGED <<pipeVars, sysVars, taskVars, scoreVars, shardVars, compVars>>
    /\ UNCHANGED <<mxIn, mxShards, mxRetr>>
    /\ mxPc = "ending"
    /\ mxEndStep = "return"
    /\ mxPc' = "ended"
    /\ UNCHANGED <<mxConf, mxArgs, mxTasks, mxHasDir, mxParent, mxChild, mxIdx,
                   mxEndStep, mxCalls, mxOut, mxError>>

\* Faulty variant: every split is given the first split's subdirectory.
FirstSplitDir(shard, name) == <<shard, mxTasks[1]>>

\* path / name: the subdirectory of a shard that is named after the split.
SplitDir(shard, name) == <<shard, name>>

\* MultiplexTask.run_reduce: with a shared directory, every child's reduce
\* is called with its split's subdirectory of every shard, in sorted order.
\* The shard directories are those the parallel jobs left under the parent
\* by then. The task is followed no further after the merge.
MuxRunReduce ==
    /\ UNCHANGED <<pipeVars, sysVars, taskVars, scoreVars, shardVars, compVars>>
    /\ UNCHANGED <<mxIn, mxRetr>>
    /\ mxPc = "ready"
    /\ \E S \in (IF mxHasDir THEN ShardSets ELSE {{}}) :
         /\ mxShards' = S
         /\ \E globbed \in Glob(S) :
              LET dirs == SortPaths(globbed)
              IN mxCalls' = IF mxHasDir
                            THEN mxCalls \o
                                 [t \in 1..Len(mxTasks) |->
                                    MuxEntry("reduce", mxTasks[t],
                                             [i \in 1..Len(dirs) |->
                                                SplitDir(dirs[i], mxTasks[t])])]
                            ELSE mxCalls
    /\ mxPc' = "reduced"
    /\ UNCHANGED <<mxConf, mxArgs, mxTasks, mxHasDir, mxParent, mxChild, mxIdx,
                   mxEndStep, mxOut, mxError>>

\* Faulty variant: every retriever reads the parent directory.
ParentPath(base, split) == <<base>>

\* base_path / split
IndexPath(base, split) == <<base, split>>

\* RetrieverFactory.create for an index path given as a string: without a
\* manifest one retriever on the path; with one, a MultiplexTask built from
\* a dict holding one retriever per split of the manifest, each on the
\* split's subdirectory.
RetrieverCreate ==
    /\ UNCHANGED <<pipeVars, sysVars, taskVars, scoreVars, shardVars, compVars>>
    /\ UNCHANGED <<mxIn, mxShards>>
    /\ mxPc \in {"ended", "error"}
    /\ ~mxRetr.built
    /\ mxRetr' = IF mxParent.hasManifest
                 THEN LET splits == JsonLoad(mxParent.manifest)
                      IN [built |-> TRUE, multiplex |-> TRUE,
                          tasks |-> [i \in 1..Len(Keys(splits)) |->
                                       [split |-> Keys(splits)[i],
                                        path |-> IndexPath("index", Keys(splits)[i])]]]
                 ELSE [built |-> TRUE, multiplex |-> FALSE,
                       tasks |-> <<[split |-> "", path |-> <<"index">>]>>]
    /\ UNCHANGED <<mxConf, mxArgs, mxPc, mxTasks, mxHasDir, mxParent, mxChild, mxIdx,
                   mxEndStep, mxCalls, mxOut, mxError>>

MuxNext ==
    \/ MuxConstruct
    \/ MuxBegin
    \/ MuxProcess
    \/ MuxEnd
    \/ MuxChildEnd
    \/ MuxChildComplete
    \/ MuxWriteConfig
    \/ MuxTouchComplete
    \/ MuxEndReturn
    \/ MuxRunReduce
    \/ RetrieverCreate


\* ============================================ a task and the Timed decorator
\* queries.jsonl of a shard: the lines an earlier QueryWriter wrote there.
ShardFile(s) == [i \in 1..tkShards[s] |-> JsonLine(Record(Decimal(s) * 10 + i))]

TkTasks == {[kind |-> "Task", base |-> FALSE], [kind |-> "Task", base |-> TRUE],
            [kind |-> "QueryWriter", base |-> TRUE]}

\* Task.__init__ / QueryWriter.__init__: the base directory is made, and
\* QueryWriter opens queries.jsonl for writing. `lines` is what was written
\* through the file object; `log` the calls made on the task (self: made by
\* the task on itself); `res` what each call of the caller returned or raised.
NewTask(task) ==
    [open |-> task.kind = "QueryWriter", lines |-> <<>>, exists |-> task.base,
     config |-> FALSE, marker |-> FALSE, log |-> <<>>, res |-> <<>>]

TkCall(op, arg, self) == [op |-> op, arg |-> arg, self |-> self]
Returned(ret) == [err |-> "none", none |-> FALSE, ret |-> ret]
ReturnedNone == [err |-> "none", none |-> TRUE, ret |-> <<>>]
Raised(e) == [err |-> e, none |-> FALSE, ret |-> <<>>]
Logged(st, call) == [st EXCEPT !.log = Append(@, call)]

\* Task.process of a plain task transforms the item; QueryWriter.process
\* writes the query as one line and returns it; writing to the file after
\* it was closed raises ValueError.
TProcess(st, item, self) ==
    LET st1 == Logged(st, TkCall("process", <<item.id>>, self))
    IN IF tkTask.kind = "QueryWriter"
       THEN IF st1.open
            THEN [st |-> [st1 EXCEPT !.lines = Append(@, JsonLine(item))],
                  out |-> Returned(<<item>>)]
            ELSE [st |-> st1, out |-> Raised("ValueError")]
       ELSE [st |-> st1, out |-> Returned(<<[item EXCEPT !.trail = Append(@, 1)]>>)]

\* Task.batch_process: [self.process(item) for item in items].
RECURSIVE BatchFrom(_, _, _)
BatchFrom(st, items, acc) ==
    IF items = <<>> THEN [st |-> st, out |-> Returned(acc)]
    ELSE LET r == TProcess(st, Head(items), TRUE)
         IN IF r.out.err # "none" THEN r
            ELSE BatchFrom(r.st, Tail(items), acc \o r.out.ret)

TBatchProcess(st, items) ==
    BatchFrom(Logged(st, TkCall("batch_process", [i \in 1..Len(items) |-> items[i].id], FALSE)),
              items, <<>>)

\* Task.begin
TBegin(st) == [st |-> Logged(st, TkCall("begin", <<>>, FALSE)), out |-> ReturnedNone]

\* A faulty variant of the guard of Task.end: the snapshot and the marker
\* are written whether or not the task has a base directory.
EndWritesAlways(task) == TRUE

\* `if self.base:` in Task.end.
EndWrites(task) == task.base

\* Task.end: with a base, config.yml and the marker are written;
\* QueryWriter.end then closes the file.
TEnd(st) ==
    LET st1 == Logged(st, TkCall("end", <<>>, FALSE))
        st2 == IF EndWrites(tkTask) THEN [st1 EXCEPT !.config = TRUE, !.marker = TRUE]
               ELSE st1
    IN [st |-> IF tkTask.kind = "QueryWriter" THEN [st2 EXCEPT !.open = FALSE] ELSE st2,
        out |-> ReturnedNone]

\* QueryWriter.reduce, inner loop: every line of a shard's queries.jsonl is
\* written to the task's own file.
RECURSIVE CopyLines(_, _)
CopyLines(st, lines) ==
    IF lines = <<>> THEN [st |-> st, out |-> ReturnedNone]
    ELSE IF ~st.open THEN [st |-> st, out |-> Raised("ValueError")]
    ELSE CopyLines([st EXCEPT !.lines = Append(@, Head(lines))], Tail(lines))

\* QueryWriter.reduce, outer loop over the directories it was given.
RECURSIVE ReduceFrom(_, _)
ReduceFrom(st, dirs) ==
    IF dirs = <<>> THEN [st |-> st, out |-> ReturnedNone]
    ELSE IF Head(dirs) \notin DOMAIN tkShards
         THEN [st |-> st, out |-> Raised("FileNotFoundError")]
    ELSE LET r == CopyLines(st, ShardFile(Head(dirs)))
         IN IF r.out.err # "none" THEN r ELSE ReduceFrom(r.st, Tail(dirs))

\* Task.reduce does nothing; QueryWriter.reduce merges.
TReduce(st, dirs, self) ==
    LET st1 == Logged(st, TkCall("reduce", [i \in 1..Len(dirs) |-> Decimal(dirs[i])], self))
    IN IF tkTask.kind = "QueryWriter" THEN ReduceFrom(st1, dirs)
       ELSE [st |-> st1, out |-> ReturnedNone]

\* Task.run_reduce: with a base, reduce is called with the sorted shards.
TRunReduce(st, globbed) ==
    LET st1 == Logged(st, TkCall("run_reduce", <<>>, FALSE))
    IN IF tkTask.base THEN TReduce(st1, SortPaths(globbed), TRUE)
       ELSE [st |-> st1, out |-> ReturnedNone]

\* Timer.__exit__ does not swallow the exception of the timed block.
TimerExit(outcome) == outcome

\* TimedTask: every method calls the same method of the wrapped task.
TimedProcess(st, item) ==
    LET r == TProcess(st, item, FALSE) IN [st |-> r.st, out |-> TimerExit(r.out)]

TimedBatchProcess(st, items) == TBatchProcess(st, items)

TimedBegin(st) == TBegin(st)

\* Faulty variant: Task.end inherited by the decorator, which has no base.
TimedEndInherited(st) == [st |-> st, out |-> ReturnedNone]
TimedEnd(st) == TEnd(st)

TimedReduce(st, dirs) == TReduce(st, dirs, FALSE)

TimedRunReduce(st, globbed) == TRunReduce(st, globbed)

\* The call returned to the caller, or raised.
Finish(r) == [r.st EXCEPT !.res = Append(@, r.out)]

TaskInit ==
    /\ tkTask \in TkTasks
    /\ \E S \in (IF tkTask.base THEN ShardSets ELSE {{}}) :
          tkShards \in [S -> 1..MaxLines]
    /\ tkD = NewTask(tkTask)
    /\ tkW = NewTask(tkTask)
    /\ tkTimer = 0
    /\ tkPrev = <<>>

TaskIdle ==
    /\ tkTask = [kind |-> "none", base |-> FALSE]
    /\ tkShards = <<>>
    /\ tkD = NewTask(tkTask)
    /\ tkW = NewTask(tkTask)
    /\ tkTimer = 0
    /\ tkPrev = <<>>

TkItems == {Record(i) : i \in 1..MaxItems}
TkBatches == {[i \in 1..n |-> Record(i)] : n \in 0..MaxItems}
MoreCalls == tkTask.kind # "none" /\ Len(tkD.res) < MaxCalls

TkBegin ==
    /\ UNCHANGED <<pipeVars, sysVars, muxVars, scoreVars, shardVars, compVars>>
    /\ MoreCalls
    /\ tkD' = Finish(TBegin(tkD))
    /\ tkW' = Finish(TimedBegin(tkW))
    /\ tkPrev' = tkD.lines
    /\ UNCHANGED <<tkTask, tkShards, tkTimer>>

TkProcess ==
    /\ UNCHANGED <<pipeVars, sysVars, muxVars, scoreVars, shardVars, compVars>>
    /\ MoreCalls
    /\ \E item \in TkItems :
         /\ tkD' = Finish(TProcess(tkD, item, FALSE))
         /\ tkW' = Finish(TimedProcess(tkW, item))
    /\ tkTimer' = tkTimer + 1
    /\ tkPrev' = tkD.lines
    /\ UNCHANGED <<tkTask, tkShards>>

TkBatchProcess ==
    /\ UNCHANGED <<pipeVars, sysVars, muxVars, scoreVars, shardVars, compVars>>
    /\ MoreCalls
    /\ \E items \in TkBatches :
         /\ tkD' = Finish(TBatchProcess(tkD, items))
         /\ tkW' = Finish(TimedBatchProcess(tkW, items))
    /\ tkPrev' = tkD.lines
    /\ UNCHANGED <<tkTask, tkShards, tkTimer>>

TkEnd ==
    /\ UNCHANGED <<pipeVars, sysVars, muxVars, scoreVars, shardVars, compVars>>
    /\ MoreCalls
    /\ tkD' = Finish(TEnd(tkD))
    /\ tkW' = Finish(TimedEnd(tkW))
    /\ tkPrev' = tkD.lines
    /\ UNCHANGED <<tkTask, tkShards, tkTimer>>

TkReduce ==
    /\ UNCHANGED <<pipeVars, sysVars, muxVars, scoreVars, shardVars, compVars>>
    /\ MoreCalls
    /\ \E dirs \in Glob(DOMAIN tkShards) :
         /\ tkD' = Finish(TReduce(tkD, dirs, FALSE))
         /\ tkW' = Finish(TimedReduce(tkW, dirs))
    /\ tkPrev' = tkD.lines
    /\ UNCHANGED <<tkTask, tkShards, tkTimer>>

\* Pipeline.reduce calls run_reduce of each task.
TkRunReduce ==
    /\ UNCHANGED <<pipeVars, sysVars, muxVars, scoreVars, shardVars, compVars>>
    /\ MoreCalls
    /\ \E globbed \in Glob(DOMAIN tkShards) :
         /\ tkD' = Finish(TRunReduce(tkD, globbed))
         /\ tkW' = Finish(TimedRunReduce(tkW, globbed))
    /\ tkPrev' = tkD.lines
    /\ UNCHANGED <<tkTask, tkShards, tkTimer>>

TaskNext ==
    \/ TkBegin
    \/ TkProcess
    \/ TkBatchProcess
    \/ TkEnd
    \/ TkReduce
    \/ TkRunReduce

\* =================================================================== Scorer
ScQueries == {"q1", "q2"}
ScDocs == {"d1", "d2"}
ScMeasures == {"map", "ndcg_prime"}

\* dict.keys() of the qrels and of the run: pytrec_eval's parsers make an
\* entry for a query only when a line names it.
KeysOf(d) == {q \in ScQueries : d[q] # {}}

NoScores == [keys |-> {}, has |-> [q \in ScQueries |-> {}]]

ScoreInit ==
    /\ scQrels \in [ScQueries -> SUBSET ScDocs]
    /\ scRun \in [ScQueries -> SUBSET ScDocs]
    /\ scMetrics \in (SUBSET ScMeasures) \ {{}}
    /\ scPc = "warn"
    /\ scWarn = {}
    /\ scError = "none"
    /\ scPrime = {}
    /\ scScores = NoScores

ScoreIdle ==
    /\ scQrels = [q \in ScQueries |-> {}]
    /\ scRun = [q \in ScQueries |-> {}]
    /\ scMetrics = {}
    /\ scPc = "off"
    /\ scWarn = {}
    /\ scError = "none"
    /\ scPrime = {}
    /\ scScores = NoScores

\* Scorer.score: a warning for each direction of key mismatch.
ScoreWarn ==
    /\ UNCHANGED <<pipeVars, sysVars, muxVars, taskVars, shardVars, compVars>>
    /\ scPc = "warn"
    /\ scWarn' = (IF KeysOf(scRun) \ KeysOf(scQrels) # {} THEN {"run not in qrels"} ELSE {})
                 \cup
                 (IF KeysOf(scQrels) \ KeysOf(scRun) # {} THEN {"qrels not in run"} ELSE {})
    /\ scPc' = "prime"
    /\ UNCHANGED <<scQrels, scRun, scMetrics, scError, scPrime, scScores>>

\* Scorer._calc_ndcg_prime, when ndcg_prime is among the metrics: for every
\* query of the run, self.qrels[query_id] is indexed (KeyError when the
\* query has no qrels) and the judged documents are kept; the evaluator
\* returns a score for the queries that kept a document.
ScoreNdcgPrime ==
    /\ UNCHANGED <<pipeVars, sysVars, muxVars, taskVars, shardVars, compVars>>
    /\ scPc = "prime"
    /\ IF "ndcg_prime" \notin scMetrics
       THEN /\ scPc' = "evaluate"
            /\ UNCHANGED <<scPrime, scError>>
       ELSE IF KeysOf(scRun) \ KeysOf(scQrels) # {}
            THEN /\ scError' = "KeyError"
                 /\ scPc' = "raised"
                 /\ UNCHANGED scPrime
            ELSE /\ scPrime' = {q \in KeysOf(scRun) : scRun[q] \cap scQrels[q] # {}}
                 /\ scPc' = "evaluate"
                 /\ UNCHANGED scError
    /\ UNCHANGED <<scQrels, scRun, scMetrics, scWarn, scScores>>

\* Scorer.score: the evaluator scores the queries of the run that have
\* qrels on the other measures; when ndcg_prime_results is not empty, every
\* scored query is updated from ndcg_prime_results[query].
ScoreEvaluate ==
    /\ UNCHANGED <<pipeVars, sysVars, muxVars, taskVars, shardVars, compVars>>
    /\ scPc = "evaluate"
    /\ LET scored == KeysOf(scRun) \cap KeysOf(scQrels)
           measures == scMetrics \ {"ndcg_prime"}
       IN IF scPrime # {} /\ scored \ scPrime # {}
          THEN /\ scError' = "KeyError"
               /\ scPc' = "raised"
               /\ scScores' = [keys |-> scored,
                               has |-> [q \in ScQueries |->
                                          IF q \in scored THEN measures ELSE {}]]
          ELSE /\ scScores' = [keys |-> scored,
                               has |-> [q \in ScQueries |->
                                          IF q \in scored
                                          THEN measures \cup
                                               (IF scPrime # {} THEN {"ndcg_prime"} ELSE {})
                                          ELSE {}]]
               /\ scPc' = "mean"
               /\ UNCHANGED scError
    /\ UNCHANGED <<scQrels, scRun, scMetrics, scWarn, scPrime>>

\* Scorer.score: when there are scores, the mean of every configured metric
\* is taken over data[key] of every scored query, then the scores are
\* written.
ScoreMean ==
    /\ UNCHANGED <<pipeVars, sysVars, muxVars, taskVars, shardVars, compVars>>
    /\ scPc = "mean"
    /\ IF \E q \in scScores.keys : scMetrics \ scScores.has[q] # {}
       THEN /\ scError' = "KeyError"
            /\ scPc' = "raised"
       ELSE /\ scPc' = "done"
            /\ UNCHANGED scError
    /\ UNCHANGED <<scQrels, scRun, scMetrics, scWarn, scPrime, scScores>>

ScoreNext ==
    \/ ScoreWarn
    \/ ScoreNdcgPrime
    \/ ScoreEvaluate
    \/ ScoreMean

\* ========================================== shard writers and the reducer
\* External jobs, each a pipeline ending in a QueryWriter whose base is its
\* own shard directory part<digits> under the stage's base, and one process
\* that calls run_reduce on the stage's QueryWriter. A job: new (no
\* directory yet), open, ended (Task.end returned), closed; `disk` counts
\* the lines of queries.jsonl that have reached the disk, which is what a
\* reader of the file sees.
NoJob == [pc |-> "new", disk |-> 0, marker |-> FALSE]
NoReducer == [pc |-> "off", dirs |-> <<>>, idx |-> 1, merged |-> <<>>]

ShardInit ==
    /\ shJobs = [s \in ShardNames |-> NoJob]
    /\ shRed = [NoReducer EXCEPT !.pc = "idle"]

ShardIdle ==
    /\ shJobs = [s \in ShardNames |-> NoJob]
    /\ shRed = NoReducer

Started == {s \in ShardNames : shJobs[s].pc # "new"}

\* QueryWriter.__init__ of a job: Task.__init__ makes the shard directory
\* and queries.jsonl is created empty.
JobNew(s) ==
    /\ UNCHANGED <<pipeVars, sysVars, muxVars, taskVars, scoreVars, compVars>>
    /\ shRed.pc # "off"
    /\ shJobs[s].pc = "new"
    /\ Cardinality(Started) < MaxShards
    /\ shJobs' = [shJobs EXCEPT ![s].pc = "open"]
    /\ UNCHANGED shRed

\* QueryWriter.process of a job, as seen on disk: the file is buffered, so
\* the calls made so far have put any number of further lines on disk.
JobProcess(s) ==
    /\ UNCHANGED <<pipeVars, sysVars, muxVars, taskVars, scoreVars, compVars>>
    /\ shJobs[s].pc = "open"
    /\ \E n \in shJobs[s].disk + 1 .. MaxLines :
         shJobs' = [shJobs EXCEPT ![s].disk = n]
    /\ UNCHANGED shRed

\* QueryWriter.end of a job, first statement: Task.end sets the marker.
JobEnd(s) ==
    /\ UNCHANGED <<pipeVars, sysVars, muxVars, taskVars, scoreVars, compVars>>
    /\ shJobs[s].pc = "open"
    /\ shJobs' = [shJobs EXCEPT ![s].pc = "ended", ![s].marker = TRUE]
    /\ UNCHANGED shRed

\* QueryWriter.end of a job, second statement: the file is closed, which
\* puts the lines still in the buffer on disk.
JobClose(s) ==
    /\ UNCHANGED <<pipeVars, sysVars, muxVars, taskVars, scoreVars, compVars>>
    /\ shJobs[s].pc = "ended"
    /\ \E n \in shJobs[s].disk .. MaxLines :
         shJobs' = [shJobs EXCEPT ![s].pc = "closed", ![s].disk = n]
    /\ UNCHANGED shRed

\* Task.run_reduce of the reducing process: the part* directories that
\* exist by now, sorted, are handed to reduce. The call can be made again
\* after it returned.
RunReduce ==
    /\ UNCHANGED <<pipeVars, sysVars, muxVars, taskVars, scoreVars, compVars>>
    /\ shRed.pc \in {"idle", "done"}
    /\ \E globbed \in Glob(Started) :
         shRed' = [pc |-> "reducing", dirs |-> SortPaths(globbed), idx |-> 1,
                   merged |-> <<>>]
    /\ UNCHANGED shJobs

\* A faulty variant: the shard's file is opened for writing, which truncates it.
OpenTruncating(job) == [job EXCEPT !.disk = 0]

\* `open(path)` in QueryWriter.reduce: the default mode reads; the shard's
\* file is as before.
OpenShard(job) == job

\* QueryWriter.reduce, one pass of `for base in dirs`: the shard's file is
\* opened and every line it holds by now is written to the task's own file.
\* `merged` records, for the call in progress, the shard, the number of its
\* lines that were copied and whether its marker was set when it was read.
ReduceShard ==
    /\ UNCHANGED <<pipeVars, sysVars, muxVars, taskVars, scoreVars, compVars>>
    /\ shRed.pc = "reducing"
    /\ IF shRed.idx > Len(shRed.dirs)
       THEN /\ shRed' = [shRed EXCEPT !.pc = "done"]
            /\ UNCHANGED shJobs
       ELSE LET s == shRed.dirs[shRed.idx]
                opened == OpenShard(shJobs[s])
            IN /\ shJobs' = [shJobs EXCEPT ![s] = opened]
               /\ shRed' = [shRed EXCEPT !.idx = @ + 1,
                                         !.merged = Append(@, [dir |-> s,
                                                               lines |-> opened.disk,
                                                               marker |-> opened.marker])]

ShardNext ==
    \/ \E s \in ShardNames : JobNew(s)
    \/ \E s \in ShardNames : JobProcess(s)
    \/ \E s \in ShardNames : JobEnd(s)
    \/ \E s \in ShardNames : JobClose(s)
    \/ RunReduce
    \/ ReduceShard

\* ========================================================== TopicProcessor
\* Strings are sequences of characters; None, the value of an absent
\* optional field, is a value that no string equals.
None == <<"None">>
Chars == {" ", "x"}
Strings == UNION {[1..n -> Chars] : n \in 0..MaxChars}

\* config.fields, as tokens: the separator '+' and words.
FieldWords == {"title", "NAME", "Desc", "narrative", "text"}
FieldStrings == UNION {[1..n -> FieldWords \cup {"+"}] : n \in 0..MaxTokens}

\* str.lower on the words.
Lower(w) ==
    CASE w = "NAME" -> "name"
      [] w = "Desc" -> "desc"
      [] OTHER -> w

\* TopicProcessor.FIELD_MAP
FIELD_MAP ==
    [f \in {"title", "name", "desc", "description", "narr", "narrative"} |->
        CASE f \in {"title", "name"} -> "title"
          [] f \in {"desc", "description"} -> "desc"
          [] OTHER -> "narr"]

\* fields_str.split('+'): the pieces between the separators; a piece is the
\* sequence of the words written next to each other, empty between two
\* separators and at either end.
RECURSIVE Split(_)
Split(tokens) ==
    IF tokens = <<>> THEN << <<>> >>
    ELSE LET rest == Split(Tail(tokens))
         IN IF Head(tokens) = "+" THEN << <<>> >> \o rest
            ELSE << <<Head(tokens)>> \o Head(rest) >> \o Tail(rest)

\* cls.FIELD_MAP[f.lower()] raises KeyError unless the piece is one word
\* whose lower case is a key.
Known(piece) == Len(piece) = 1 /\ Lower(piece[1]) \in DOMAIN FIELD_MAP

\* TopicProcessor._extract_fields
ExtractFields(fields_str) ==
    LET fields == Split(fields_str)
    IN IF \A i \in 1..Len(fields) : Known(fields[i])
       THEN [err |-> "none", fields |-> [i \in 1..Len(fields) |-> FIELD_MAP[Lower(fields[i][1])]]]
       ELSE [err |-> "ConfigError", fields |-> <<>>]

\* str.strip: leading and trailing white space is removed.
RECURSIVE LStrip(_)
LStrip(s) == IF s # <<>> /\ Head(s) = " " THEN LStrip(Tail(s)) ELSE s
RECURSIVE RStrip(_)
RStrip(s) == IF s # <<>> /\ s[Len(s)] = " " THEN RStrip(SubSeq(s, 1, Len(s) - 1)) ELSE s
Strip(s) == RStrip(LStrip(s))

\* ' '.join(list)
RECURSIVE JoinSpace(_)
JoinSpace(list) ==
    IF list = <<>> THEN <<>>
    ELSE IF Len(list) = 1 THEN list[1]
    ELSE list[1] \o <<" ">> \o JoinSpace(Tail(list))

\* The topics the readers yield: TsvTopicReader leaves desc and narr None,
\* Tc4JsonTopicReader leaves narr None.
Topics ==
    [id : {"1", "2"}, lang : {"en"}, title : Strings,
     desc : Strings \cup {None}, narr : {None, <<"x">>}]
NoTopic == [id |-> "", lang |-> "", title |-> <<>>, desc |-> None, narr |-> None]
NoQuery == [id |-> "", lang |-> "", text |-> <<>>]

\* TopicProcessor.process: getattr(topic, f).strip() of every field, joined;
\* None has no strip.
Process(fields, topic) ==
    IF \E i \in 1..Len(fields) : topic[fields[i]] = None
    THEN [err |-> "AttributeError", query |-> NoQuery]
    ELSE [err |-> "none",
          query |-> [id |-> topic.id, lang |-> topic.lang,
                     text |-> JoinSpace([i \in 1..Len(fields) |-> Strip(topic[fields[i]])])]]

TopicInit ==
    /\ tpConf \in FieldStrings
    /\ tpPc = "new"
    /\ tpFields = <<>>
    /\ tpTopic = NoTopic
    /\ tpOut = [err |-> "none", query |-> NoQuery]
    /\ mtIn = <<>>
    /\ mtRes = <<>>
    /\ jnIn = <<>>
    /\ jnOut = <<>>

CompIdle ==
    /\ tpConf = <<>>
    /\ tpPc = "off"
    /\ tpFields = <<>>
    /\ tpTopic = NoTopic
    /\ tpOut = [err |-> "none", query |-> NoQuery]
    /\ mtIn = <<>>
    /\ mtRes = <<>>
    /\ jnIn = <<>>
    /\ jnOut = <<>>

\* TopicProcessor.__init__
TopicProcessorNew ==
    /\ UNCHANGED <<pipeVars, sysVars, muxVars, taskVars, scoreVars, shardVars>>
    /\ tpPc = "new"
    /\ LET r == ExtractFields(tpConf)
       IN /\ tpFields' = r.fields
          /\ tpOut' = [tpOut EXCEPT !.err = r.err]
          /\ tpPc' = IF r.err = "none" THEN "ready" ELSE "error"
    /\ UNCHANGED <<tpConf, tpTopic, mtIn, mtRes, jnIn, jnOut>>

\* TopicProcessor.process on the next topic of the input.
TopicProcess ==
    /\ UNCHANGED <<pipeVars, sysVars, muxVars, taskVars, scoreVars, shardVars>>
    /\ tpPc = "ready"
    /\ \E topic \in Topics :
         /\ tpTopic' = topic
         /\ tpOut' = Process(tpFields, topic)
    /\ tpPc' = "processed"
    /\ UNCHANGED <<tpConf, tpFields, mtIn, mtRes, jnIn, jnOut>>

TopicNext ==
    \/ TopicProcessorNew
    \/ TopicProcess

\* ================================================== Scorer, metric names
\* Metric names are strings, character by character.
Map == <<"m", "a", "p">>
P_at_20 == <<"P", "@", "2", "0">>
P_20 == <<"P", "_", "2", "0">>
NdcgQuote == <<"n", "d", "c", "g", "'">>
NdcgPrime == <<"n", "d", "c", "g", "_", "p", "r", "i", "m", "e">>
MetricNames ==
    {Map, P_at_20, P_20, NdcgQuote, NdcgPrime, <<"n", "d", "c", "g">>,
     <<"n", "d", "c", "g", "'", "@">>, <<"n", "d", "c", "g", "@", "'">>}
    \cup UNION {[1..n -> {"@", "_"}] : n \in 0..MaxChars}
MetricLists == UNION {[1..n -> MetricNames] : n \in 0..MaxMetrics}

\* A faulty variant: only the first '@' of a name is replaced.
ReplaceFirstAt(m) ==
    [k \in 1..Len(m) |->
        IF m[k] = "@" /\ \A j \in 1..(k - 1) : m[j] # "@" THEN "_" ELSE m[k]]

\* m.replace('@', '_'): every occurrence is replaced.
ReplaceAt(m) == [k \in 1..Len(m) |-> IF m[k] = "@" THEN "_" ELSE m[k]]

\* Scorer._preprocess_metrics
PreprocessMetrics(metrics) ==
    LET replaced == [i \in 1..Len(metrics) |-> ReplaceAt(metrics[i])]
    IN [i \in 1..Len(replaced) |->
          IF replaced[i] # NdcgQuote THEN replaced[i] ELSE NdcgPrime]

MetricInit ==
    /\ mtIn \in MetricLists
    /\ mtRes = <<>>
    /\ tpConf = <<>>
    /\ tpPc = "off"
    /\ tpFields = <<>>
    /\ tpTopic = NoTopic
    /\ tpOut = [err |-> "none", query |-> NoQuery]
    /\ jnIn = <<>>
    /\ jnOut = <<>>

\* Scorer.__init__: self.metrics = self._preprocess_metrics(metrics), on
\* the configured names.
ScorerNew ==
    /\ UNCHANGED <<pipeVars, sysVars, muxVars, taskVars, scoreVars, shardVars>>
    /\ mtRes = <<>>
    /\ mtRes' = <<PreprocessMetrics(mtIn)>>
    /\ UNCHANGED <<tpConf, tpPc, tpFields, tpTopic, tpOut, mtIn, jnIn, jnOut>>

\* A further Scorer is built from the names the last one holds.
ScorerAgain ==
    /\ UNCHANGED <<pipeVars, sysVars, muxVars, taskVars, scoreVars, shardVars>>
    /\ mtRes # <<>>
    /\ Len(mtRes) < MaxCalls
    /\ mtRes' = Append(mtRes, PreprocessMetrics(mtRes[Len(mtRes)]))
    /\ UNCHANGED <<tpConf, tpPc, tpFields, tpTopic, tpOut, mtIn, jnIn, jnOut>>

MetricNext ==
    \/ ScorerNew
    \/ ScorerAgain

\* ================================================================== Joiner
\* Result(doc_id, rank, score) and Results(query, system, results) of one
\* split; the retrievers rank from 0.
JnDocs == {"d1", "d2"}
JnScores == {1, 2}
JnLists ==
    UNION {{[i \in 1..n |-> [doc_id |-> l[i].doc_id, rank |-> i - 1, score |-> l[i].score]] :
               l \in [1..n -> [doc_id : JnDocs, score : JnScores]]} : n \in 0..MaxResults}
JnResults ==
    {[query |-> r.query, system |-> r.system, results |-> l] :
        r \in {[query |-> "q1", system |-> "bm25"], [query |-> "q2", system |-> "mock"]},
        l \in JnLists}

\* The MultiplexItem the multiplexed retrievers return: one Results per
\* split, in the order of the splits.
JnItems ==
    {<<[name |-> n, value |-> v]>> : n \in SplitNames, v \in JnResults} \cup
    {it \in {<<[name |-> n, value |-> v], [name |-> m, value |-> w]>> :
                n \in SplitNames, m \in SplitNames, v \in JnResults, w \in JnResults} :
        it[1].name # it[2].name}

\* `output[result.doc_id] += result.score` on a defaultdict(int): a new key
\* goes to the end of the dict, a known key keeps its place.
AddScore(output, result) ==
    IF \E i \in 1..Len(output) : output[i].doc_id = result.doc_id
    THEN [i \in 1..Len(output) |->
            IF output[i].doc_id = result.doc_id
            THEN [output[i] EXCEPT !.score = @ + result.score]
            ELSE output[i]]
    ELSE Append(output, [doc_id |-> result.doc_id, score |-> result.score])

\* The two loops of Joiner.process over the splits and their results.
RECURSIVE AddAll(_, _)
AddAll(output, list) ==
    IF list = <<>> THEN output ELSE AddAll(AddScore(output, Head(list)), Tail(list))

RECURSIVE Accumulate(_, _)
Accumulate(output, item) ==
    IF item = <<>> THEN output
    ELSE Accumulate(AddAll(output, Head(item).value.results), Tail(item))

\* A faulty variant: the items are left in the order of the dict.
NotSorted(items) == items

\* sorted(output.items(), key=lambda item: item[1], reverse=True): by
\* score, largest first; items of equal score keep their order.
RECURSIVE SortByScore(_)
SortByScore(items) ==
    IF items = <<>> THEN <<>>
    ELSE LET rest == SortByScore(Tail(items))
             x == Head(items)
             k == Cardinality({i \in 1..Len(rest) : rest[i].score > x.score})
         IN SubSeq(rest, 1, k) \o <<x>> \o SubSeq(rest, k + 1, Len(rest))

\* Joiner.process
Join(item) ==
    LET first_results == item[1].value
        output == SortByScore(Accumulate(<<>>, item))
    IN [query |-> first_results.query,
        system |-> first_results.system,
        results |-> [i \in 1..Len(output) |->
                       [doc_id |-> output[i].doc_id, rank |-> i - 1,
                        score |-> output[i].score]]]

JoinInit ==
    /\ jnIn \in JnItems
    /\ jnOut = <<>>
    /\ tpConf = <<>>
    /\ tpPc = "off"
    /\ tpFields = <<>>
    /\ tpTopic = NoTopic
    /\ tpOut = [err |-> "none", query |-> NoQuery]
    /\ mtIn = <<>>
    /\ mtRes = <<>>

\* Joiner.process on the item.
JoinerProcess ==
    /\ UNCHANGED <<pipeVars, sysVars, muxVars, taskVars, scoreVars, shardVars>>
    /\ jnIn # <<>>
    /\ jnOut = <<>>
    /\ jnOut' = <<Join(jnIn)>>
    /\ UNCHANGED <<tpConf, tpPc, tpFields, tpTopic, tpOut, mtIn, mtRes, jnIn>>

JoinNext == JoinerProcess

MuxStart == PipeIdle /\ SysIdle /\ MuxInit /\ TaskIdle /\ ScoreIdle /\ ShardIdle /\ CompIdle

MuxSpec == MuxStart /\ [][MuxNext]_vars

TaskStart == PipeIdle /\ SysIdle /\ MuxIdle /\ TaskInit /\ ScoreIdle /\ ShardIdle /\ CompIdle

TaskSpec == TaskStart /\ [][TaskNext]_vars


Next ==
    \/ PipelineBegin
    \/ LinkedBegin
    \/ StreamPull
    \/ StreamProcess
    \/ BatchPull
    \/ BatchCall
    \/ BatchElem
    \/ EndCall
    \/ TouchComplete
    \/ FileClose
    \/ NewPipeline
    \/ ResumeRead

SysStart == PipeIdle /\ SysInit /\ MuxIdle /\ TaskIdle /\ ScoreIdle /\ ShardIdle /\ CompIdle

SysSpec == SysStart /\ [][SysNext]_vars

Init == PipeInit /\ SysIdle /\ MuxIdle /\ TaskIdle /\ ScoreIdle /\ ShardIdle /\ CompIdle

Spec == Init /\ [][Next]_vars

ScoreStart == PipeIdle /\ SysIdle /\ MuxIdle /\ TaskIdle /\ ScoreInit /\ ShardIdle /\ CompIdle

ScoreSpec == ScoreStart /\ [][ScoreNext]_vars
ShardStart == PipeIdle /\ SysIdle /\ MuxIdle /\ TaskIdle /\ ScoreIdle /\ ShardInit /\ CompIdle

ShardSpec == ShardStart /\ [][ShardNext]_vars
TopicStart == PipeIdle /\ SysIdle /\ MuxIdle /\ TaskIdle /\ ScoreIdle /\ ShardIdle /\ TopicInit

TopicSpec == TopicStart /\ [][TopicNext]_vars

MetricStart == PipeIdle /\ SysIdle /\ MuxIdle /\ TaskIdle /\ ScoreIdle /\ ShardIdle /\ MetricInit

MetricSpec == MetricStart /\ [][MetricNext]_vars

JoinStart == PipeIdle /\ SysIdle /\ MuxIdle /\ TaskIdle /\ ScoreIdle /\ ShardIdle /\ JoinInit

JoinSpec == JoinStart /\ [][JoinNext]_vars

\* ================================================================== claims
ProcessCalls == SelectSeq(calls, LAMBDA e : e.op = "process")
EndCalls == SelectSeq(calls, LAMBDA e : e.op = "end")

\* C1: for every task that owns a base directory, the Completion Marker is
\* set only after all output writes are flushed and the output file is
\* closed (QueryWriter.end: marker versus closing queries.jsonl).
C1_MarkerAfterClose ==
    \A t \in TaskIds : fs[t].marker => (~file[t].open /\ file[t].buf = <<>>)

\* C3: if a process call raises during run(), the error reaches the caller
\* unchanged, nothing is pulled or processed afterwards, end() is called on
\* no task and the run sets no Completion Marker.
C3_ErrorAbortsRun ==
    /\ [](error # "none" =>
            /\ pc = "failed"
            /\ calls # <<>>
            /\ calls[Len(calls)].err = error
            /\ \A i \in 1..(Len(calls) - 1) : calls[i].err = "none"
            /\ EndCalls = <<>>
            /\ \A t \in TaskIds : ~fs[t].marker /\ ~fs[t].config)
    /\ [][error # "none" => UNCHANGED <<pos, calls, fs, file, error>>]_vars

C3_Witness ==
    /\ error # "none"
    /\ Len(ProcessCalls) > NumTasks
    /\ \E t \in TaskIds : HasBase(t) /\ fs[t].disk # <<>>

\* C8: in one run() every task's begin() is called exactly once, before any
\* process/batch_process call, in chain order; every task's end() is called
\* exactly once, after the last process/batch_process call, in chain order.
C8_LifecycleOrder ==
    /\ pc = "idle" => calls = <<>>
    /\ pc # "idle" =>
          /\ Len(calls) >= NumTasks
          /\ \A t \in TaskIds : calls[t] = BeginEntry(t)
          /\ \A i \in (NumTasks + 1)..Len(calls) : calls[i].op # "begin"
    /\ \A j \in 1..Len(EndCalls) : EndCalls[j].task = j
    /\ \A i, j \in 1..Len(calls) :
          (i < j /\ calls[i].op = "end") => calls[j].op = "end"
    /\ pc = "done" => Len(EndCalls) = NumTasks

C8_Witness ==
    /\ pc = "done"
    /\ NumTasks >= 2
    /\ Len(ProcessCalls) >= 2 * NumTasks
    /\ driver = "batch"

\* C9: in the streaming driver each record traverses the whole chain, task 1
\* to task k, each task receiving the previous task's output, before the
\* next record is pulled; records are processed in input order.
C9_StreamOrder ==
    driver \in {"streaming", "linked"} =>
        /\ \A j \in 1..Len(ProcessCalls) :
              LET r == ((j - 1) \div NumTasks) + 1
                  t == ((j - 1) % NumTasks) + 1
              IN /\ ProcessCalls[j].task = t
                 /\ ProcessCalls[j].arg =
                       IF t = 1 THEN Record(input[r]) ELSE ProcessCalls[j - 1].ret
        /\ pc = "process" => Len(ProcessCalls) = (pos - 1) * NumTasks + (ti - 1)
        /\ pc \in {"pull", "end", "done"} => Len(ProcessCalls) = pos * NumTasks
        /\ pc = "failed" => pos = ((Len(ProcessCalls) - 1) \div NumTasks) + 1

C9_Witness ==
    /\ driver = "streaming"
    /\ pc = "done"
    /\ NumTasks >= 2
    /\ chain[1] = "Task"
    /\ Len(input) >= 2

\* C10: for chains of tasks with the default element-wise batch_process, the
\* streaming and the batch driver over the same input deliver the same items
\* in the same order to every task and produce the same final outputs, for
\* every chunk size.
C10_BatchStreamEquivalence ==
    (pc = "done" /\ ref.set) =>
        /\ Delivered.recv = ref.recv
        /\ Delivered.rets = ref.rets
        /\ Delivered.disk = ref.disk

C10_Witness ==
    /\ pc = "done"
    /\ ref.set
    /\ ref.by = "streaming"
    /\ driver = "batch"
    /\ chunkN = 1
    /\ Len(input) >= 3
    /\ NumTasks >= 2

\* ------------------------------------------------------ MultiplexTask claims
\* C2: end() writes the artifact-config snapshot and then the Completion
\* Marker: wherever a directory's marker is present its config snapshot is
\* present too, for Task.end() and for MultiplexTask.end()'s shared parent
\* directory.
C2_MarkerImpliesConfig ==
    /\ mxParent.marker => mxParent.config
    /\ \A n \in SplitNames : mxChild[n].marker => mxChild[n].config

\* ------------------------------------------------------- orchestrator claims
StageDirs == {"docstore", "index", "queries", "results", "rerank"}

StaleAtStart(d) == fsAtStart[d].exists /\ ~fsAtStart[d].marker

\* The task that recomputes a stage directory.
Recomputer(d) ==
    CASE d = "docstore" -> "DocumentProcessor"
      [] d = "index" -> "Indexer"
      [] d = "queries" -> "QueryWriter"
      [] d = "results" -> "JsonResultsWriter"
      [] d = "rerank" -> "TrecResultsWriter"

InPipeline(task) ==
    \/ stage1.built /\ \E i \in 1..Len(stage1.tasks) : stage1.tasks[i] = task
    \/ stage2.built /\ \E i \in 1..Len(stage2.tasks) : stage2.tasks[i] = task

Constructed == sysPc \in {"built", "stage1done", "finished", "crashed"}

IndexWithoutDocStore == fsAtStart["index"].marker /\ ~fsAtStart["docstore"].marker

\* C4 (as claimed): for every stage directory and every combination of the
\* states of the others, a directory that exists without a marker when
\* System is constructed is deleted, the built pipeline contains the task
\* that recomputes it and sets its marker on a successful run; a directory
\* that has the marker is neither deleted nor written.
C4_ResumeOnPartial ==
    run >= 1 =>
        \A d \in StageDirs :
            /\ StaleAtStart(d) =>
                  /\ d \in deleted
                  /\ InPipeline(Recomputer(d))
                  /\ sysPc = "finished" =>
                        (sysFs[d].marker /\ sysFs[d].content = {run})
            /\ fsAtStart[d].marker =>
                  (d \notin deleted /\ sysFs[d] = fsAtStart[d])

\* C4 (amended): a directory that exists without a marker at construction
\* is deleted unless construction is rejected for a complete index with an
\* incomplete document store; when construction succeeds the pipeline holds
\* the task that recomputes it and sets its marker on a successful run,
\* except the saved-queries writer when the saved results are complete; a
\* directory that has the marker is neither deleted nor written.
C4_ResumeOnPartialAmended ==
    run >= 1 =>
        \A d \in StageDirs :
            /\ (StaleAtStart(d) /\ ~IndexWithoutDocStore) => d \in deleted
            /\ (/\ StaleAtStart(d)
                /\ Constructed
                /\ ~(d = "queries" /\ fsAtStart["results"].marker)) =>
                  /\ InPipeline(Recomputer(d))
                  /\ sysPc = "finished" =>
                        (sysFs[d].marker /\ sysFs[d].content = {run})
            /\ fsAtStart[d].marker =>
                  (d \notin deleted /\ sysFs[d] = fsAtStart[d])

C4_Witness ==
    /\ sysPc = "finished"
    /\ \A d \in StageDirs \ {"docstore"} : StaleAtStart(d)
    /\ fsAtStart["docstore"].marker
    /\ \A d \in StageDirs \ {"docstore"} : sysFs[d].marker /\ d \in deleted

HasTaskNamed(p, task) == \E i \in 1..Len(p.tasks) : p.tasks[i] = task

\* C5: when a stage directory's marker is already set no task chain is
\* built for that stage: for a complete index build_phase1_pipeline returns
\* no pipeline; for a complete saved-queries or saved-results directory
\* add_io_task drops every upstream task, adds no writer and replaces the
\* input sequence by a reader over the existing artifact.
C5_SkipCompleteStages ==
    /\ (run >= 1 /\ fsAtStart["index"].marker) => ~stage1.built
    /\ Constructed =>
          /\ fsAtStart["results"].marker =>
                /\ stage2.iterable = "JsonResultsReader"
                /\ stage2.tasks = <<"Reranker", "TrecResultsWriter", "Scorer">>
          /\ (fsAtStart["queries"].marker /\ ~fsAtStart["results"].marker) =>
                /\ stage2.iterable = "QueryReader"
                /\ stage2.tasks[1] = "Retriever"
          /\ fsAtStart["queries"].marker =>
                /\ ~HasTaskNamed(stage2, "TopicProcessor")
                /\ ~HasTaskNamed(stage2, "QueryWriter")
                /\ sysFs["queries"] = fsAtStart["queries"]

C5_Witness ==
    /\ sysPc = "built"
    /\ fsAtStart["index"].marker
    /\ fsAtStart["queries"].marker
    /\ ~fsAtStart["results"].marker
    /\ conf.retrieveSave
    /\ stage2.iterable = "QueryReader"

Configured(d) ==
    CASE d = "docs" -> conf.docsSave
      [] d = "queries" -> conf.topicsSave
      [] d = "results" -> conf.retrieveSave
      [] OTHER -> TRUE

AllComplete(f) == \A d \in SysDirs : Configured(d) => f[d].marker

\* C6: running the orchestrator a second time against directories whose
\* markers were all set by a first successful run performs zero task
\* invocations and leaves every directory unchanged.
C6_SkipIdempotence ==
    (/\ run >= 2
     /\ outcomes[Len(outcomes)] = "finished"
     /\ AllComplete(fsAtStart)) =>
        /\ invoked = <<>>
        /\ sysFs = fsAtStart

C6_Witness ==
    /\ run = 2
    /\ outcomes = <<"finished">>
    /\ AllComplete(fsAtStart)
    /\ \A d \in StageDirs : fsAtStart[d].content = {1}
    /\ conf.topicsSave /\ conf.retrieveSave
    /\ sysPc = "rejected"

CallerCalls == SelectSeq(tkD.log, LAMBDA c : ~c.self)
NumCalls == Len(tkD.res)
LastIs(op) ==
    /\ NumCalls >= 1
    /\ CallerCalls[NumCalls].op = op
    /\ tkD.res[NumCalls].err = "none"

\* C11: reduce is idempotent: after QueryWriter.reduce was called twice
\* in a row with the same list of shard directories, the task's own output
\* holds what it held after the first of the two calls.
C11_ReduceIdempotent ==
    (/\ tkTask.kind = "QueryWriter"
     /\ NumCalls >= 2
     /\ LastIs("reduce")
     /\ CallerCalls[NumCalls - 1].op = "reduce"
     /\ tkD.res[NumCalls - 1].err = "none"
     /\ CallerCalls[NumCalls - 1].arg = CallerCalls[NumCalls].arg)
    => tkD.lines = tkPrev

\* The lines the last call added to the task's own output.
Added == SubSeq(tkD.lines, Len(tkPrev) + 1, Len(tkD.lines))
ShardLines == {<<s, i>> : s \in ShardNames, i \in 1..MaxLines}
Present == {p \in ShardLines : p[1] \in DOMAIN tkShards /\ p[2] <= tkShards[p[1]]}
Origin(line) == CHOOSE p \in Present : ShardFile(p[1])[p[2]] = line

\* C12: after run_reduce the lines merged into the task's own output are
\* the lines of the shards in the order of the sorted shard names and, within
\* a shard, in the order of the shard's file; every line of every shard is
\* there exactly once, and nothing else was added or lost.
C12_MergedInShardOrder ==
    (tkTask.kind = "QueryWriter" /\ LastIs("run_reduce")) =>
        /\ SubSeq(tkD.lines, 1, Len(tkPrev)) = tkPrev
        /\ \A p \in Present :
             Cardinality({k \in 1..Len(Added) : Added[k] = ShardFile(p[1])[p[2]]}) = 1
        /\ Len(Added) = Cardinality(Present)
        /\ \A j, k \in 1..Len(Added) :
             j < k => LET a == Origin(Added[j])
                          b == Origin(Added[k])
                      IN \/ LexLess(a[1], b[1])
                         \/ a[1] = b[1] /\ a[2] < b[2]

C12_Witness ==
    /\ tkTask.kind = "QueryWriter"
    /\ LastIs("run_reduce")
    /\ {<<2>>, <<1, 0>>} \subseteq DOMAIN tkShards
    /\ tkShards[<<1, 0>>] > 1
    /\ Added[1] = ShardFile(<<1, 0>>)[1]
    /\ Len(tkPrev) > 0

\* C17: run_reduce invokes reduce only when the task has a base directory
\* under which at least one shard directory exists; otherwise it invokes
\* nothing and changes nothing.
C17_ReduceOnlyWithShards ==
    /\ \A i \in 1..Len(tkD.log) :
         (tkD.log[i].op = "reduce" /\ tkD.log[i].self) =>
             (tkTask.base /\ DOMAIN tkShards # {})
    /\ (NumCalls >= 1 /\ CallerCalls[NumCalls].op = "run_reduce"
        /\ (~tkTask.base \/ DOMAIN tkShards = {})) =>
           /\ tkD.lines = tkPrev
           /\ tkD.res[NumCalls] = ReturnedNone

\* C18: a TimedTask is a pure observer: after any sequence of calls the
\* wrapped task received the same calls in the same order, the caller got
\* the same values and errors, and the task's file and directory are as they
\* are when the task is called directly.
C18_TimedIsObserver == tkW = tkD

C18_Witness ==
    /\ tkTask.kind = "QueryWriter"
    /\ NumCalls >= 2
    /\ CallerCalls[1].op = "end"
    /\ CallerCalls[2].op = "process"
    /\ tkW.res[2].err = "ValueError"
    /\ tkW.marker
    /\ tkTimer = 1

\* ------------------------------------------------------------ MultiplexTask
Names(item) == [i \in 1..Len(item) |-> item[i].name]
Built(name) == \E i \in 1..Len(mxArgs.splits) : mxArgs.splits[i] = name

\* C13: process returns an item with the split names of its input, in the
\* same order, each value being what the split's own task returns for the
\* split's input value; it fails exactly when the input names a split for
\* which no task was built, and no value is given to another split's task.
C13_ProcessRoutesBySplit ==
    /\ mxError = "KeyError" <=> \E i \in 1..Len(mxIn) : ~Built(mxIn[i].name)
    /\ mxError = "none" =>
         /\ Names(mxOut) = Names(mxIn)
         /\ \A i \in 1..Len(mxIn) :
              mxOut[i].value = [by |-> mxIn[i].name, of |-> mxIn[i].value]
    /\ LET given == SelectSeq(mxCalls, LAMBDA e : e.op = "process")
           served == Cardinality({l \in 1..Len(mxIn) :
                                    \A i \in 1..l : Built(mxIn[i].name)})
       IN /\ served <= Len(given)
          /\ \A i \in 1..served :
               /\ given[Len(given) - served + i].split = mxIn[i].name
               /\ given[Len(given) - served + i].arg = mxIn[i].value

C13_Witness ==
    /\ mxError = "none"
    /\ Len(mxIn) = 2
    /\ mxIn[1].name = "b"
    /\ mxOut[2].value.by = "a"
    /\ Len(mxTasks) = 2

\* The splits the manifest on disk reads back as.
ManifestSplits == JsonLoad(mxParent.manifest)

\* C14: the manifest reads back as the list of split names the
\* MultiplexTask was built from, in the same order; when
\* RetrieverFactory.create finds the manifest it builds a MultiplexTask with
\* exactly one task for every split of the manifest, stored under the split's
\* name and reading the split's subdirectory.
C14_ManifestRoundTrip ==
    /\ mxParent.hasManifest => ManifestSplits = mxArgs.splits
    /\ (mxRetr.built /\ mxParent.hasManifest) =>
         /\ mxRetr.multiplex
         /\ \A i \in 1..Len(mxArgs.splits) :
              Cardinality({t \in 1..Len(mxRetr.tasks) :
                             mxRetr.tasks[t].split = mxArgs.splits[i]}) = 1
         /\ \A t \in 1..Len(mxRetr.tasks) :
              /\ Built(mxRetr.tasks[t].split)
              /\ mxRetr.tasks[t].path = <<"index", mxRetr.tasks[t].split>>

C14_Witness ==
    /\ mxRetr.built
    /\ mxParent.hasManifest
    /\ mxArgs.splits = <<"b", "a">>
    /\ Len(mxRetr.tasks) = 2
    /\ mxRetr.tasks[1].split = "b"

CallsOn(op, name) ==
    Cardinality({i \in 1..Len(mxCalls) : mxCalls[i].op = op /\ mxCalls[i].split = name})

\* C15: begin() and end() call begin()/end() of every child exactly once;
\* the shared config.yml and the marker of the parent directory are written
\* only after the end() of every child returned, so the parent is never
\* marked while the directory of a child is not.
C15_ParentMarkedLast ==
    /\ \A n \in SplitNames :
         /\ CallsOn("begin", n) =
              (IF Built(n) /\ mxPc \in {"begun", "ending", "ended"} THEN 1
               ELSE IF mxPc = "error" THEN CallsOn("begin", n) ELSE 0)
         /\ CallsOn("end", n) <= 1
         /\ (Built(n) /\ mxPc = "ended") => CallsOn("end", n) = 1
    /\ (mxParent.config \/ mxParent.marker) =>
         \A n \in SplitNames :
            Built(n) => /\ CallsOn("end", n) = 1
                        /\ mxChild[n].exists => (mxChild[n].config /\ mxChild[n].marker)
    /\ mxParent.marker => \A n \in SplitNames : mxChild[n].exists => mxChild[n].marker

C15_Witness ==
    /\ mxPc = "ended"
    /\ mxParent.config
    /\ mxParent.marker
    /\ Len(mxTasks) = 2
    /\ \A n \in SplitNames : mxChild[n].marker

ReduceCalls == SelectSeq(mxCalls, LAMBDA e : e.op = "reduce")

\* C16: run_reduce hands to the reduce of every split the split-named
\* subdirectory of every shard directory under the shared parent, in the
\* order of the sorted shard names, and never a subdirectory that is named
\* after another split.
C16_ReducePerSplit ==
    ReduceCalls # <<>> =>
        /\ mxHasDir
        /\ \A n \in SplitNames :
             Cardinality({i \in 1..Len(ReduceCalls) : ReduceCalls[i].split = n}) =
                 (IF Built(n) THEN 1 ELSE 0)
        /\ \A c \in 1..Len(ReduceCalls) :
             LET dirs == ReduceCalls[c].arg
             IN /\ {dirs[i][1] : i \in 1..Len(dirs)} = mxShards
                /\ Len(dirs) = Cardinality(mxShards)
                /\ \A i \in 1..Len(dirs) : dirs[i][2] = ReduceCalls[c].split
                /\ \A i, j \in 1..Len(dirs) : i < j => LexLess(dirs[i][1], dirs[j][1])

C16_Witness ==
    /\ Len(ReduceCalls) = 2
    /\ {<<2>>, <<1, 0>>} \subseteq mxShards
    /\ ReduceCalls[2].arg[1] = <<<<1, 0>>, ReduceCalls[2].split>>

\* ------------------------------------------------------------------ resume
\* C19: the queries a QueryReader yields from a directory that bears the
\* marker of a QueryWriter are, one for one and in the same order, the
\* queries QueryWriter.process was given by the run that wrote the directory.
C19_ResumeReadsWhatWasWritten ==
    resumed.set => resumed.queries = ProcessArgs(resumed.task)

\* ------------------------------------------------------------------ scoring
KeyMismatch == KeysOf(scRun) # KeysOf(scQrels)

\* C20: when the queries of the run and of the qrels differ, score() logs a
\* warning and still finishes without raising, whatever the configured
\* metrics are, ndcg_prime included.
C20_MismatchOnlyWarns ==
    (KeyMismatch /\ scPc # "warn") =>
        /\ scWarn # {}
        /\ scError = "none"
        /\ scPc # "raised"

\* C21: when the rerank results directory already has its marker at
\* construction, building the query stage raises PipelineError: the
\* construction is rejected, no pipeline (and so no results writer) is built,
\* the rerank directory is as it was, and no stage is invoked.
C21_RerankCompleteIsFatal ==
    (run >= 1 /\ IsComplete(fsAtStart, "rerank")) =>
        /\ sysPc = "rejected"
        /\ sysError = "PipelineError"
        /\ stage1 = NoPipeline
        /\ stage2 = NoPipeline
        /\ invoked = <<>>
        /\ sysFs["rerank"] = fsAtStart["rerank"]

\* A construction that passed the index/document-store check and was stopped
\* by the rerank guard.
C21_Witness ==
    /\ run >= 1
    /\ IsComplete(fsAtStart, "rerank")
    /\ ~CompletenessViolated(fsAtStart)
    /\ sysPc = "rejected"

\* C29: a construction of System that fails with PipelineError leaves every
\* stage directory as it was before the construction.
C29_FailedConstructionKeepsFs ==
    (run >= 1 /\ sysPc = "rejected" /\ sysError = "PipelineError") =>
        /\ sysFs = fsAtStart
        /\ deleted = {}

\* The records that have gone through the whole chain: the calls of process
\* on the last task that returned.
Traversed == Len(FinalOutputs)

\* C24: the counter is 0 after begin(), during a run it never exceeds the
\* number of records that have traversed the whole chain, and after a
\* successful run it equals the number of input records, under every driver
\* and chunk size.
C24_CountIsProcessed ==
    /\ (pc = "pull" /\ pos = 0) => count = 0
    /\ pc \in {"pull", "process", "batch", "bproc", "end", "failed", "done"} =>
           count <= Traversed
    /\ pc = "done" => count = Len(input)

\* C25: a task constructed without a base directory has no directory, no
\* config snapshot and no marker, whatever calls (end included) were made on
\* it, directly or through its timing decorator.
C25_NoBaseNoSnapshot ==
    ~tkTask.base =>
        /\ ~tkD.exists /\ ~tkD.config /\ ~tkD.marker /\ tkD.lines = <<>>
        /\ ~tkW.exists /\ ~tkW.config /\ ~tkW.marker /\ tkW.lines = <<>>

\* end() was called on a task without a base directory, and returned.
C25_Witness ==
    /\ tkTask.kind = "Task"
    /\ ~tkTask.base
    /\ \E i \in 1..Len(tkD.log) : tkD.log[i].op = "end"
    /\ \E i \in 1..Len(tkW.log) : tkW.log[i].op = "end"

\* C26: a MultiplexTask built from a list of splits called the factory once
\* per split, in order, with a configuration whose output path is
\* <shared parent>/<split>; distinct splits got distinct paths, and the
\* template's output path is the shared parent as before.
C26_OneChildPerSplit ==
    (mxArgs.mode = "list" /\ mxArgs.output /\ mxPc # "new") =>
        /\ Len(mxConf.created) = Len(mxArgs.splits)
        /\ \A i \in 1..Len(mxArgs.splits) :
              /\ mxConf.created[i].split = mxArgs.splits[i]
              /\ mxConf.created[i].path = <<"out", mxArgs.splits[i]>>
        /\ \A i, j \in 1..Len(mxConf.created) :
              mxConf.created[i].split # mxConf.created[j].split =>
                  mxConf.created[i].path # mxConf.created[j].path
        /\ \A n \in SplitNames :
              HasTask(n) <=> \E i \in 1..Len(mxConf.created) : mxConf.created[i].split = n
        /\ mxConf.path = <<"out">>

\* A MultiplexTask was built from two distinct splits with an output path.
C26_Witness ==
    /\ mxArgs.mode = "list"
    /\ mxArgs.output
    /\ mxPc = "ready"
    /\ mxArgs.splits = <<"b", "a">>
    /\ Len(mxConf.created) = 2

\* C27: a step of run_reduce/reduce leaves every shard directory as it was:
\* the lines of its file, on disk and buffered, and its marker.
C27_ReduceOnlyReads == [][shRed' # shRed => shJobs' = shJobs]_vars

\* A reduce call has copied the lines of a shard that had its marker, and
\* the shard still holds them.
C27_Witness ==
    /\ shRed.pc = "done"
    /\ \E i \in 1..Len(shRed.merged) :
          /\ shRed.merged[i].lines > 0
          /\ shRed.merged[i].marker
          /\ shJobs[shRed.merged[i].dir].disk = shRed.merged[i].lines
          /\ shJobs[shRed.merged[i].dir].marker

\* C28: while jobs write their shard directories, run_reduce merges lines
\* only of shards whose marker was set when they were read.
C28_MergesOnlyMarkedShards ==
    \A i \in 1..Len(shRed.merged) :
        shRed.merged[i].lines > 0 => shRed.merged[i].marker

\* The text the claim describes: the values of the fields as they are,
\* joined by single spaces.
FieldsJoined(fields, topic) == JoinSpace([i \in 1..Len(fields) |-> topic[fields[i]]])

\* C23: a TopicProcessor whose field names are all recognised (lower-cased,
\* through the alias map) holds them in configured order, and process
\* returns a query with the topic's id and language whose text is the
\* fields' values joined by single spaces; an unrecognised name raises
\* ConfigError at construction and no topic is processed.
C23_QueryFromConfiguredFields ==
    LET pieces == Split(tpConf)
        known == \A i \in 1..Len(pieces) : Known(pieces[i])
    IN /\ tpPc \in {"ready", "processed"} =>
            /\ known
            /\ Len(tpFields) = Len(pieces)
            /\ \A i \in 1..Len(pieces) : tpFields[i] = FIELD_MAP[Lower(pieces[i][1])]
       /\ tpPc = "error" => (~known /\ tpOut.err = "ConfigError" /\ tpTopic = NoTopic)
       /\ tpPc = "processed" =>
            /\ tpOut.err = "none"
            /\ tpOut.query = [id |-> tpTopic.id, lang |-> tpTopic.lang,
                              text |-> FieldsJoined(tpFields, tpTopic)]

\* The same, for topics that have every configured field and whose fields
\* carry no white space at either end.
C23_OnTrimmedTopics ==
    (tpPc = "processed" /\ \A i \in 1..Len(tpFields) :
                              /\ tpTopic[tpFields[i]] # None
                              /\ Strip(tpTopic[tpFields[i]]) = tpTopic[tpFields[i]])
        => C23_QueryFromConfiguredFields

\* C22: the normalised list has the length and order of the configured one;
\* each name has every '@' replaced by '_', except that the name "ndcg'"
\* becomes "ndcg_prime" (['map', 'P@20'] becomes ['map', 'P_20']);
\* normalising the normalised list gives it back.
C22_MetricNamesNormalised ==
    /\ mtRes # <<>> =>
          /\ Len(mtRes[1]) = Len(mtIn)
          /\ \A i \in 1..Len(mtIn) :
                IF mtIn[i] = NdcgQuote THEN mtRes[1][i] = NdcgPrime
                ELSE /\ Len(mtRes[1][i]) = Len(mtIn[i])
                     /\ \A k \in 1..Len(mtIn[i]) :
                           mtRes[1][i][k] = (IF mtIn[i][k] = "@" THEN "_" ELSE mtIn[i][k])
          /\ mtIn = <<Map, P_at_20>> => mtRes[1] = <<Map, P_20>>
    /\ \A c \in 2..Len(mtRes) : mtRes[c] = mtRes[1]

\* A list with a name holding two '@' and the name "ndcg'" was normalised
\* twice.
C22_Witness ==
    /\ mtIn = <<NdcgQuote, <<"@", "@">> >>
    /\ Len(mtRes) = 2
    /\ mtRes[2] = <<NdcgPrime, <<"_", "_">> >>

\* Every result of every split of the item given to the Joiner.
RECURSIVE AllResults(_)
AllResults(item) ==
    IF item = <<>> THEN <<>> ELSE Head(item).value.results \o AllResults(Tail(item))

\* The sum of the scores a document has in a list of results.
RECURSIVE ScoreSum(_, _)
ScoreSum(doc, list) ==
    IF list = <<>> THEN 0
    ELSE (IF Head(list).doc_id = doc THEN Head(list).score ELSE 0) + ScoreSum(doc, Tail(list))

\* C30: the joined list holds every document of any split exactly once,
\* with the sum of its scores over all splits, by non-increasing score, with
\* ranks 0..n-1 in that order; query and system are the first split's.
C30_JoinSumsAndRanks ==
    jnOut # <<>> =>
        LET res == jnOut[1].results
            all == AllResults(jnIn)
        IN /\ {res[i].doc_id : i \in 1..Len(res)} = {all[i].doc_id : i \in 1..Len(all)}
           /\ \A i, j \in 1..Len(res) : res[i].doc_id = res[j].doc_id => i = j
           /\ \A i \in 1..Len(res) : res[i].score = ScoreSum(res[i].doc_id, all)
           /\ \A i \in 1..(Len(res) - 1) : res[i].score >= res[i + 1].score
           /\ \A i \in 1..Len(res) : res[i].rank = i - 1
           /\ jnOut[1].query = jnIn[1].value.query
           /\ jnOut[1].system = jnIn[1].value.system

\* Two splits that share a document: it comes first with the summed score,
\* ahead of the document that led the first split.
C30_Witness ==
    /\ Len(jnIn) = 2
    /\ jnIn[1].value.query # jnIn[2].value.query
    /\ jnOut # <<>>
    /\ Len(jnOut[1].results) = 2
    /\ jnIn[1].value.results # <<>>
    /\ jnIn[1].value.results[1].doc_id = "d1"
    /\ jnOut[1].results[1] = [doc_id |-> "d2", rank |-> 0, score |-> 3]

====
